---- MODULE Spec2Model ----
(***************************************************************************)
(* Berth allocation board: the edit session of ui/viz/origin.py, the       *)
(* version store of db.py, the conflict checks of validate.py, schema.py   *)
(* and app.py, the grid snapping, the labels and the layout of             *)
(* berth_layout.py, and the board of app.py with its undo history.         *)
(*                                                                         *)
(* Units.  Timestamps are whole minutes since midnight of day 0 (the       *)
(* snapping code drops seconds first).  The f/e positions of the edit      *)
(* frame are counted in half metres, so that (f + e) / 2 and abs(L) / 2    *)
(* of _apply_move are exact; the frames handed to the validators and to    *)
(* the store carry whole metres.                                           *)
(***************************************************************************)
EXTENDS Integers, Sequences, FiniteSets, TLC

VARIABLES
    mode,        \* which part of the program this behaviour exercises
    edit_df,     \* st.session_state["edit_df"]: the working set
    undo_df,     \* st.session_state["undo_df"]: one buffered frame, or NoFrame
    edit_logs,   \* st.session_state["edit_logs"]: the change log
    ops,         \* the kinds of the last two operations of the edit session
    noop_base,   \* <<session>> as it was before the current run of moves
                 \* without effect, <<>> outside such a run
    working_df,  \* st.session_state["working_df"]: the frame handed to the store
    db,          \* the committed tables: versions, assignments, vessels, berths
    sess,        \* what the ORM session holds unflushed: new rows, changed LOAs
    clock,       \* datetime.utcnow, in ticks
    created,     \* version id -> the number of rows its create call was given
    deleted,     \* the version ids delete_versions has removed
    last,        \* the last store operation: its kind and what it returned
    view_df,     \* the frame the conflict checks are run on
    found,       \* the last check run and the violations it returned
    calc_arg,    \* the value a snapping or layout function is applied to
    calc_res,    \* the last application: the function, its input, its result
    history,     \* st.session_state["history"] of app.py: earlier working frames
    sessions     \* the edit buffers of the browser sessions open on one version

editVars == <<edit_df, undo_df, edit_logs, ops, noop_base>>

storeVars == <<working_df, db, sess, clock, created, deleted, last>>

detectVars == <<view_df, found>>

appVars == <<history>>

multiVars == <<sessions>>

vars == <<mode, edit_df, undo_df, edit_logs, ops, noop_base,
          working_df, db, sess, clock, created, deleted, last,
          view_df, found, calc_arg, calc_res, history, sessions>>

calcVars == <<calc_arg, calc_res>>

\* ------------------------------------------------------------------ values

\* pd.NaT, a missing timestamp.
NaT == -1000

\* NaN / None in a numeric column.
NaN == -100000

\* st.session_state["undo_df"] = None; a buffered frame df is held as <<df>>.
NoFrame == <<>>

\* Spatial snap grid in metres.
Y_GRID_M == 30

\* Number of rows of the edit frame.
MaxRows == 2

\* Largest minute a timestamp of the edit frame takes.
MaxMinute == 20

\* Largest position (whole metres) of the edit frame.
MaxMeter == 120

\* Most entries the change log holds before further moves are held back.
MaxLog == 2

Abs(x) == IF x < 0 THEN -x ELSE x

\* Python's round() of the exact quotient n / d (d > 0): nearest, ties to even.
PyRound(n, d) ==
    LET q == n \div d
        r == n % d
    IN  IF 2 * r < d THEN q
        ELSE IF 2 * r > d THEN q + 1
        ELSE IF q % 2 = 0 THEN q ELSE q + 1

\* ------------------------------------------------------------ schema.py snaps

snap_time_5min(ts) ==
    IF ts = NaT THEN ts
    ELSE LET base    == ts
             minutes == base % 1440
             snapped == PyRound(minutes, 5) * 5
         IN  (base - minutes) + snapped

\* The grid line above y_m, also when y_m is on a grid line already.
snap_y_30m_above(y_m) == ((y_m \div (2 * Y_GRID_M)) + 1) * (2 * Y_GRID_M)

\* y_m in half metres.
snap_y_30m(y_m) == PyRound(y_m, 2 * Y_GRID_M) * (2 * Y_GRID_M)

\* ----------------------------------------------- snap_to_interval (3 copies)

NoCalc == [fn |-> "none"]

\* The calculators at rest, for behaviours that do not exercise them.
CalcIdle ==
    /\ calc_arg = <<>>
    /\ calc_res = NoCalc

\* The app.py board and the parallel edit sessions at rest.
AppIdle == history = <<>>

MultiIdle == sessions = <<>>

\* A timestamp with seconds is a count of seconds; the minute count of the
\* edit session is Minutes(ts).
Minutes(ts) == ts \div 60

\* minute_map: the grid of a snap choice, 60 for any other key.
GridMinutes(interval) ==
    IF interval = "1h" THEN 60
    ELSE IF interval = "30m" THEN 30
    ELSE IF interval = "15m" THEN 15
    ELSE 60

\* validate.snap_to_interval: dt.replace(minute=dt.minute - discard,
\* second=0, microsecond=0).
validate_snap_to_interval(dt, interval) ==
    IF dt = NaT THEN dt
    ELSE LET minutes == GridMinutes(interval)
             minute  == Minutes(dt) % 60
             discard == minute % minutes
         IN  60 * (Minutes(dt) - minute + (minute - discard))

\* berth_layout.snap_to_interval: ts.floor(f"{minutes}min").
layout_snap_to_interval(ts, snap_choice) ==
    IF ts = NaT THEN ts
    ELSE LET minutes == GridMinutes(snap_choice)
         IN  ts - (ts % (60 * minutes))

\* app.snap_to_interval: the timestamp without its seconds, less
\* ts.minute % minutes minutes.
app_snap_to_interval(ts, key) ==
    LET minutes == GridMinutes(key)
        base    == 60 * Minutes(ts)
    IN  base - 60 * ((Minutes(base) % 60) % minutes)

\* schema.snap_time_5min on a timestamp with seconds: base drops them.
snap_time_5min_of(ts) ==
    IF ts = NaT THEN ts ELSE 60 * snap_time_5min(Minutes(ts))

\* -------------------------------------------------------- ui/viz/origin.py

_is_finite_num(x) == x # NaN

_ts_equal(a, b) ==
    IF a = NaT /\ b = NaT THEN TRUE
    ELSE IF a = NaT \/ b = NaT THEN FALSE
    ELSE a = b

_num_equal(a, b) ==
    IF ~_is_finite_num(a) /\ ~_is_finite_num(b) THEN TRUE
    ELSE IF ~_is_finite_num(a) \/ ~_is_finite_num(b) THEN FALSE
    ELSE a = b

\* The index of the first row whose row_id is row_id, 0 when there is none.
RowIndex(df, row_id) ==
    LET hits == {i \in 1..Len(df) : df[i].row_id = row_id}
    IN  IF hits = {} THEN 0 ELSE CHOOSE i \in hits : \A j \in hits : i <= j

\* A log entry that records the values after the move on both sides.
_append_log_after(logs, before, after) ==
    Append(logs, [row_id       |-> before.row_id,
                  vessel       |-> before.vessel,
                  berth        |-> before.berth,
                  start_before |-> after.start,
                  end_before   |-> after.end,
                  f_before     |-> after.f,
                  e_before     |-> after.e,
                  start_after  |-> after.start,
                  end_after    |-> after.end,
                  f_after      |-> after.f,
                  e_after      |-> after.e])

\* _append_log: the entry of one move, appended to edit_logs.
_append_log(logs, before, after) ==
    Append(logs, [row_id       |-> before.row_id,
                  vessel       |-> before.vessel,
                  berth        |-> before.berth,
                  start_before |-> before.start,
                  end_before   |-> before.end,
                  f_before     |-> before.f,
                  e_before     |-> before.e,
                  start_after  |-> after.start,
                  end_after    |-> after.end,
                  f_after      |-> after.f,
                  e_after      |-> after.e])

\* The time candidates of the move: the shifted, snapped pair, or the old one.
MoveTime(row, dmin) ==
    IF dmin # 0 /\ row.start # NaT /\ row.end # NaT
    THEN [start |-> snap_time_5min(row.start + dmin),
          end   |-> snap_time_5min(row.end + dmin)]
    ELSE [start |-> row.start, end |-> row.end]

\* A move that snaps the shifted lower bound and keeps the span above it.
MoveSpaceFromBound(row, dy) ==
    IF dy # 0 /\ _is_finite_num(row.f) /\ _is_finite_num(row.e)
       /\ Abs(row.e - row.f) > 0
    THEN LET L     == row.e - row.f
             new_f == snap_y_30m(row.f + dy)
         IN  [f |-> new_f, e |-> new_f + Abs(L)]
    ELSE [f |-> row.f, e |-> row.e]

\* The position candidates of the move (dy in half metres).
MoveSpace(row, dy) ==
    IF dy # 0 /\ _is_finite_num(row.f) /\ _is_finite_num(row.e)
       /\ Abs(row.e - row.f) > 0
    THEN LET L       == row.e - row.f
             mid     == (row.f + row.e) \div 2
             new_mid == snap_y_30m(mid + dy)
         IN  [f |-> new_mid - Abs(L) \div 2, e |-> new_mid + Abs(L) \div 2]
    ELSE [f |-> row.f, e |-> row.e]

\* The buffer takes the frame after the move instead of the one before it.
UndoCopyOut(df, out) == out

\* What the session keeps as undo_df after a move that changed a field.

UndoCopy(df, out) == df

\* A move that changed no field overwrites the buffer all the same.
UnchangedOverwrites(s) == [s EXCEPT !.undo = <<s.df>>]

\* The early return of a move that changed no field: no log, buffer kept.
Unchanged(s) == s

\* A move that writes the new values into the columns, not into the one row.
_apply_move_columns(s, row_id, dmin, dy) ==
    LET df  == s.df
        idx == RowIndex(df, row_id)
    IN  IF idx = 0 THEN s
        ELSE
          LET row     == df[idx]
              t       == MoveTime(row, dmin)
              p       == MoveSpace(row, dy)
              changed == \/ ~_ts_equal(row.start, t.start)
                         \/ ~_ts_equal(row.end, t.end)
                         \/ ~_num_equal(row.f, p.f)
                         \/ ~_num_equal(row.e, p.e)
              after   == [row EXCEPT !.start = t.start, !.end = t.end,
                                     !.f = p.f, !.e = p.e]
              out     == [i \in DOMAIN df |->
                             [df[i] EXCEPT !.start = t.start, !.end = t.end,
                                           !.f = p.f, !.e = p.e]]
          IN  IF ~changed THEN Unchanged(s)
              ELSE [df   |-> out,
                    undo |-> <<UndoCopy(df, out)>>,
                    logs |-> _append_log(s.logs, row, after)]

\* _apply_move on a session [df, undo, logs]: the session afterwards.
_apply_move(s, row_id, dmin, dy) ==
    LET df  == s.df
        idx == RowIndex(df, row_id)
    IN  IF idx = 0 THEN s
        ELSE
          LET row     == df[idx]
              t       == MoveTime(row, dmin)
              p       == MoveSpace(row, dy)
              changed == \/ ~_ts_equal(row.start, t.start)
                         \/ ~_ts_equal(row.end, t.end)
                         \/ ~_num_equal(row.f, p.f)
                         \/ ~_num_equal(row.e, p.e)
              after   == [row EXCEPT !.start = t.start, !.end = t.end,
                                     !.f = p.f, !.e = p.e]
              out     == [df EXCEPT ![idx] = after]
          IN  IF ~changed THEN Unchanged(s)
              ELSE [df   |-> out,
                    undo |-> <<UndoCopy(df, out)>>,
                    logs |-> _append_log(s.logs, row, after)]

\* The undo control: the buffered frame comes back and the last log entry goes.
undo(s) ==
    IF s.undo = NoFrame THEN s
    ELSE [df   |-> s.undo[1],
          undo |-> NoFrame,
          logs |-> IF s.logs = <<>> THEN s.logs
                   ELSE SubSeq(s.logs, 1, Len(s.logs) - 1)]

Session == [df |-> edit_df, undo |-> undo_df, logs |-> edit_logs]

\* -------------------------------------------------------------------- db.py

\* A cell that pd.to_datetime cannot parse.
BadTime == -2000

\* Creations (version ids handed out) a behaviour holds.
MaxVersions == 2

\* Rows of a frame handed to the store.
MaxStoreRows == 2

EmptyDb == [versions |-> {}, assignments |-> {}, vessels |-> <<>>, berths |-> {}]

EmptySess == [new |-> {}, loa |-> <<>>]

NoOp == [op |-> "none", ret |-> 0]

\* The store part at rest, for behaviours that do not exercise it.
StoreIdle ==
    /\ working_df = <<>>
    /\ db = EmptyDb
    /\ sess = EmptySess
    /\ clock = 0
    /\ created = <<>>
    /\ deleted = {}
    /\ last = NoOp

\* session.commit(): the unflushed rows and LOA changes reach the tables.
Commit(d, ss) ==
    [d EXCEPT !.assignments = d.assignments \cup ss.new,
              !.vessels = [n \in DOMAIN d.vessels |->
                              IF n \in DOMAIN ss.loa THEN ss.loa[n]
                              ELSE d.vessels[n]]]

\* An id that an earlier call was given already.
LastVersionId(used, active) == Cardinality(used)

\* str(uuid.uuid4()) for a version: an id no earlier call was given.
NewVersionId(used, active) == Cardinality(used) + 1

\* An Assignment that leaves the optional start_meter out.
NewAssignmentNoMeter(vid, i, r) ==
    [id          |-> <<vid, i>>,
     version_id  |-> vid,
     vessel      |-> r.vessel,
     berth       |-> r.berth,
     eta         |-> r.eta,
     etd         |-> r.etd,
     start_meter |-> NaN]

\* The Assignment built from row i of the frame; its uuid4 is <<vid, i>>.
\* pd.to_datetime of a timestamp and float of a number give the value itself;
\* the row holds the values, not the frame's cells.
NewAssignment(vid, i, r) ==
    [id          |-> <<vid, i>>,
     version_id  |-> vid,
     vessel      |-> r.vessel,
     berth       |-> r.berth,
     eta         |-> r.eta,
     etd         |-> r.etd,
     start_meter |-> r.start_meter]

\* The loop over df.iterrows() from row i on, with tables d and session ss:
\* the tables and the session when the call ends, and whether it returned.
RECURSIVE CreateRows(_, _, _, _, _)
CreateRows(d, ss, df, i, vid) ==
    IF i > Len(df)
    THEN [db |-> Commit(d, ss), sess |-> EmptySess, ok |-> TRUE]
    ELSE
      LET r    == df[i]
          newV == r.vessel \notin DOMAIN d.vessels
          d1   == IF newV
                  THEN Commit([d EXCEPT !.vessels = (r.vessel :> NaN) @@ d.vessels], ss)
                  ELSE d
          ss1  == IF newV THEN EmptySess ELSE ss
          loa  == IF r.vessel \in DOMAIN ss1.loa THEN ss1.loa[r.vessel]
                  ELSE d1.vessels[r.vessel]
          ss2  == IF r.loa_m # NaN /\ (loa = NaN \/ loa = 0)
                  THEN [ss1 EXCEPT !.loa = (r.vessel :> r.loa_m) @@ ss1.loa]
                  ELSE ss1
          newB == r.berth \notin d1.berths
          d2   == IF newB
                  THEN Commit([d1 EXCEPT !.berths = d1.berths \cup {r.berth}], ss2)
                  ELSE d1
          ss3  == IF newB THEN EmptySess ELSE ss2
      IN  IF r.eta = BadTime \/ r.etd = BadTime
          THEN [db |-> d2, sess |-> ss3, ok |-> FALSE]
          ELSE CreateRows(d2, [ss3 EXCEPT !.new = ss3.new \cup {NewAssignment(vid, i, r)}],
                          df, i + 1, vid)

\* create_version_with_assignments(session, df, source, label) at time now.
create_version_with_assignments(d, ss, df, source, label, vid, now) ==
    LET ver == [id |-> vid, source |-> source, label |-> label, created_at |-> now]
        d0  == Commit([d EXCEPT !.versions = d.versions \cup {ver}], ss)
    IN  CreateRows(d0, EmptySess, df, 1, vid)

VersionIds(d) == {v.id : v \in d.versions}

AssignmentsOf(d, vid) == {a \in d.assignments : a.version_id = vid}

\* The versions newest first, as ORDER BY created_at DESC gives them.
RECURSIVE NewestFirst(_)
NewestFirst(vs) ==
    IF vs = {} THEN <<>>
    ELSE LET v == CHOOSE x \in vs : \A y \in vs : y.created_at <= x.created_at
         IN  <<v>> \o NewestFirst(vs \ {v})

list_versions(d) ==
    LET sq == NewestFirst(d.versions)
    IN  [i \in 1..Len(sq) |->
            [id         |-> sq[i].id,
             source     |-> sq[i].source,
             label      |-> sq[i].label,
             created_at |-> sq[i].created_at,
             count      |-> Cardinality(AssignmentsOf(d, sq[i].id))]]

\* A load whose rows read eta and etd through to the frame row each booking
\* was built from.
load_assignments_aliased(d, version_id) ==
    {[vessel      |-> a.vessel,
      berth       |-> a.berth,
      eta         |-> IF a.id[2] <= Len(working_df) THEN working_df[a.id[2]].eta ELSE a.eta,
      etd         |-> IF a.id[2] <= Len(working_df) THEN working_df[a.id[2]].etd ELSE a.etd,
      loa_m       |-> d.vessels[a.vessel],
      start_meter |-> a.start_meter] :
        a \in {x \in AssignmentsOf(d, version_id) :
                  x.vessel \in DOMAIN d.vessels /\ x.berth \in d.berths}}

\* load_assignments_df: the rows of a version joined with vessels and berths.
\* The frame's row order is the table's; the rows are kept as a set.
load_assignments_df(d, version_id) ==
    {[vessel      |-> a.vessel,
      berth       |-> a.berth,
      eta         |-> a.eta,
      etd         |-> a.etd,
      loa_m       |-> d.vessels[a.vessel],
      start_meter |-> a.start_meter] :
        a \in {x \in AssignmentsOf(d, version_id) :
                  x.vessel \in DOMAIN d.vessels /\ x.berth \in d.berths}}

\* The versions delete_versions(version_ids) selects; version_ids is <<ids>>
\* for a collection of ids and AllVersions for None.  NoId is an empty
\* (falsy) id: such ids are dropped.
AllVersions == <<>>

NoId == 0

SelectedVersions(d, version_ids) ==
    IF version_ids = AllVersions THEN d.versions
    ELSE LET ids == {vid \in version_ids[1] : vid # NoId}
         IN  {v \in d.versions : v.id \in ids}

\* The arguments delete_versions is called with: None, or a collection of
\* ids that may hold an empty id and ids of no stored version.
DeleteInputs ==
    {AllVersions} \cup {<<ids>> : ids \in SUBSET ({NoId} \cup (1..MaxVersions))}

\* delete_versions: the tables, the session and the count afterwards.
delete_versions(d, ss, version_ids) ==
    LET versions == SelectedVersions(d, version_ids)
        gone     == {v.id : v \in versions}
    IN  IF versions = {} THEN [db |-> d, sess |-> ss, ret |-> 0]
        ELSE [db   |-> Commit([d EXCEPT
                                  !.versions = d.versions \ versions,
                                  !.assignments =
                                      {a \in d.assignments : a.version_id \notin gone}],
                              ss),
              sess |-> EmptySess,
              ret  |-> Cardinality(versions)]

\* set_vessels_loa(session, mapping): mapping gives a LOA (NaN for None) to
\* vessel names.  A name without a vessel gets one, a vessel with another
\* LOA gets the new one; the commit runs only when something changed.
set_vessels_loa(d, ss, mapping) ==
    LET names   == {n \in DOMAIN mapping : mapping[n] # NaN}
        Held(n) == IF n \in DOMAIN ss.loa THEN ss.loa[n] ELSE d.vessels[n]
        hit     == {n \in names : n \notin DOMAIN d.vessels \/ Held(n) # mapping[n]}
        d1      == [d EXCEPT !.vessels =
                       [n \in (DOMAIN d.vessels) \cup hit |->
                           IF n \in hit THEN mapping[n] ELSE d.vessels[n]]]
        ss1     == [ss EXCEPT !.loa =
                       [n \in (DOMAIN ss.loa) \ hit |-> ss.loa[n]]]
    IN  IF hit = {} THEN [db |-> d, sess |-> ss, ret |-> 0]
        ELSE [db |-> Commit(d1, ss1), sess |-> EmptySess, ret |-> Cardinality(hit)]

\* ------------------------------------ validate.py, schema.py, app.py checks

MIN_CLEARANCE_M == 30

\* The default of min_gap_m.
MinGap == 30

\* Rows of a frame handed to the checks.
MaxViewRows == 3

NoCheck == [check |-> "none", out |-> {}]

\* The check part at rest, for behaviours that do not exercise it.
DetectIdle ==
    /\ view_df = <<>>
    /\ found = NoCheck

\* The indices in S by increasing key, equal keys in frame order.
RECURSIVE SortedBy(_, _)
SortedBy(S, key) ==
    IF S = {} THEN <<>>
    ELSE LET m == CHOOSE i \in S :
                     \A j \in S : key[i] < key[j] \/ (key[i] = key[j] /\ i <= j)
         IN  <<m>> \o SortedBy(S \ {m}, key)

BerthsOf(df) == {df[i].berth : i \in DOMAIN df}

\* Every row, whatever its berth.
GroupAll(df, berth) == DOMAIN df

\* groupby("berth"): the rows of one berth.
GroupOf(df, berth) == {i \in DOMAIN df : df[i].berth = berth}

_infer_terminal_from_berth(b) ==
    IF 1 <= b /\ b <= 5 THEN "SND" ELSE IF 6 <= b /\ b <= 9 THEN "GAM" ELSE ""

\* schema._overlap on two rows of the frame.
_overlap(df, i, j) ==
    IF df[i].eta = NaT \/ df[i].etd = NaT \/ df[j].eta = NaT \/ df[j].etd = NaT
    THEN FALSE
    ELSE ~(df[i].etd <= df[j].eta \/ df[j].etd <= df[i].eta)

\* validate.validate_temporal_overlaps: within each berth, in eta order, each
\* row against the row before it.  A violation names the two rows.
validate_temporal_overlaps(df) ==
    UNION {
        LET g == SortedBy(GroupOf(df, b), [i \in DOMAIN df |-> df[i].eta])
        IN  {[berth |-> b, prev |-> g[k], cur |-> g[k + 1]] :
                k \in {k \in 1..(Len(g) - 1) : df[g[k]].etd > df[g[k + 1]].eta}}
        : b \in BerthsOf(df)}

\* A gap that equals the minimum counts as a violation too.
TooCloseInclusive(gap, min_gap_m) == gap <= min_gap_m

\* `if gap < min_gap_m`.
TooClose(gap, min_gap_m) == gap < min_gap_m

\* validate.validate_spatial_gap: within each berth every pair of rows that
\* have loa_m and start_meter and overlap in time.
validate_spatial_gap(df, min_gap_m) ==
    UNION {
        LET g == {i \in GroupOf(df, b) : df[i].loa_m # NaN /\ df[i].start_meter # NaN}
            Gap(i, j) ==
                LET a_start == df[i].start_meter
                    a_end   == df[i].start_meter + df[i].loa_m
                    b_start == df[j].start_meter
                    b_end   == df[j].start_meter + df[j].loa_m
                IN  IF b_start - a_end >= a_start - b_end
                    THEN b_start - a_end ELSE a_start - b_end
        IN  {[berth |-> b, a |-> p[1], b |-> p[2], gap |-> Gap(p[1], p[2])] :
                p \in {p \in g \X g :
                         /\ p[1] < p[2]
                         /\ ~(df[p[1]].etd <= df[p[2]].eta \/ df[p[2]].etd <= df[p[1]].eta)
                         /\ TooClose(Gap(p[1], p[2]), min_gap_m)}}
        : b \in BerthsOf(df)}

\* The meter range of a row as collect_spacing_conflicts reads it.
MeterRange(r) ==
    IF r.start_meter > r.end_meter THEN <<r.end_meter, r.start_meter>>
    ELSE <<r.start_meter, r.end_meter>>

\* app.collect_spacing_conflicts: within each berth, the rows with both
\* meters in start_meter order, each against the row before it.
collect_spacing_conflicts(df, min_gap_m) ==
    UNION {
        LET valid   == {i \in GroupOf(df, b) :
                           df[i].start_meter # NaN /\ df[i].end_meter # NaN}
            ordered == SortedBy(valid, [i \in DOMAIN df |-> df[i].start_meter])
            Gap(k)  == MeterRange(df[ordered[k + 1]])[1] - MeterRange(df[ordered[k]])[2]
        IN  {[berth          |-> b,
              gap            |-> Gap(k),
              previous_index |-> ordered[k],
              current_index  |-> ordered[k + 1],
              previous_range |-> MeterRange(df[ordered[k]]),
              current_range  |-> MeterRange(df[ordered[k + 1]])] :
                k \in {k \in 1..(Len(ordered) - 1) : TooClose(Gap(k), min_gap_m)}}
        : b \in BerthsOf(df)}

\* schema.validate_df: the row problems, then per (terminal, berth) group one
\* "overlap" problem if a row starts before the row before it ends, and a
\* "clearance" problem for each pair that overlaps in time with y_m closer
\* than MIN_CLEARANCE_M.
validate_df(df) ==
    {[kind |-> "terminal", row |-> i] :
        i \in {i \in DOMAIN df : _infer_terminal_from_berth(df[i].berth) = ""}}
    \cup
    {[kind |-> "time", row |-> i] :
        i \in {i \in DOMAIN df :
                  df[i].eta = NaT \/ df[i].etd = NaT \/ df[i].eta >= df[i].etd}}
    \cup
    UNION {
        LET g == SortedBy(GroupOf(df, b), [i \in DOMAIN df |-> df[i].eta])
        IN  {[kind |-> "overlap", berth |-> b] :
                k \in {k \in 1..(Len(g) - 1) : df[g[k + 1]].eta < df[g[k]].etd}}
            \cup
            {[kind |-> "clearance", berth |-> b, i |-> p[1], j |-> p[2],
              d |-> Abs(df[g[p[1]]].y_m - df[g[p[2]]].y_m)] :
                p \in {p \in (1..Len(g)) \X (1..Len(g)) :
                         /\ p[1] < p[2]
                         /\ _overlap(df, g[p[1]], g[p[2]])
                         /\ Abs(df[g[p[1]]].y_m - df[g[p[2]]].y_m) < MIN_CLEARANCE_M}}
        : b \in BerthsOf(df)}

\* ------------------------------------------------- berth_layout.py labels

\* A text is a sequence of characters; a value is a text or a null (None or
\* a float NaN).
DigitChars == {"0", "1", "2", "3", "4", "5", "6", "7", "8", "9"}

IsDigit(ch) == ch \in DigitChars

IsSpace(ch) == ch = " "

\* "".join(ch for ch in text if ch.isdigit())
DigitsOf(text) == SelectSeq(text, IsDigit)

\* str(int(digits)) for a text of digits: the leading zeros go.
RECURSIVE StrInt(_)
StrInt(digits) ==
    IF Len(digits) > 1 /\ digits[1] = "0" THEN StrInt(Tail(digits)) ELSE digits

\* str.strip()
RECURSIVE Strip(_)
Strip(text) ==
    IF text = <<>> THEN text
    ELSE IF IsSpace(text[1]) THEN Strip(Tail(text))
    ELSE IF IsSpace(text[Len(text)]) THEN Strip(SubSeq(text, 1, Len(text) - 1))
    ELSE text

\* str.find(ch, start) with 0-based positions: -1 when there is none.
Find(text, ch, start) ==
    LET at == {i \in (start + 1)..Len(text) : text[i] = ch}
    IN  IF at = {} THEN -1
        ELSE (CHOOSE i \in at : \A j \in at : i <= j) - 1

\* text[a:b] with 0-based positions.
Slice(text, a, b) == SubSeq(text, a + 1, b)

normalize_berth_label(value) ==
    IF value.null THEN <<>>
    ELSE
      LET text   == Strip(value.v)
          open   == Find(text, "(", 0)
          prefix == DigitsOf(Slice(text, 0, open))
          start  == open + 1
          end    == Find(text, ")", start)
          inside == IF open >= 0 /\ Find(text, ")", 0) >= 0 /\ end > start
                    THEN DigitsOf(Slice(text, start, end)) ELSE <<>>
          digits == DigitsOf(text)
      IN  IF text = <<>> THEN <<>>
          ELSE IF open >= 0 /\ prefix # <<>> THEN StrInt(prefix)
          ELSE IF inside # <<>> THEN StrInt(inside)
          ELSE IF digits # <<>> THEN StrInt(digits)
          ELSE text

\* ------------------------------------------------- berth_layout.py layout

\* A row of the timeline frame is a record of berth (a label value),
\* start_meter, end_meter, f_pos, e_pos, loa_m and length_m (whole metres,
\* NaN when missing).  Heights and offsets are pixels, one per metre.
BP_BASELINE_M == 1500

BERTH_VERTICAL_SPAN_PX == 300

\* max(24.0, ...) of compute_item_height.
MinItemHeight == 24

\* The height of a row with no span and no length.
DefaultItemHeight == 86

\* BERTH_METER_RANGES.get(key) is None.
NoRange == <<>>

BERTH_METER_RANGES(key) ==
    IF key = <<"1">> THEN <<1200, 1500>>
    ELSE IF key = <<"2">> THEN <<900, 1200>>
    ELSE IF key = <<"3">> THEN <<600, 900>>
    ELSE IF key = <<"4">> THEN <<300, 600>>
    ELSE IF key = <<"5">> THEN <<0, 300>>
    ELSE NoRange

Min2(a, b) == IF a <= b THEN a ELSE b

Max2(a, b) == IF a >= b THEN a ELSE b

SetMin(S) == CHOOSE x \in S : \A y \in S : x <= y

SetMax(S) == CHOOSE x \in S : \A y \in S : x >= y

\* The values of the named columns that _to_float keeps.
KnownValues(row, keys) == {row[k] : k \in keys} \ {NaN}

\* (None, None) is <<NaN, NaN>>.
extract_meter_range(row) ==
    LET values == KnownValues(row, {"start_meter", "end_meter", "f_pos", "e_pos"})
    IN  IF values = {} THEN <<NaN, NaN>>
        ELSE <<SetMin(values), SetMax(values)>>

get_berth_meter_range(berth_value) ==
    LET key == normalize_berth_label(berth_value)
    IN  IF key = <<>> THEN NoRange ELSE BERTH_METER_RANGES(key)

\* None is NaN.
resolve_berth_span(row) ==
    LET berth_range == get_berth_meter_range(row.berth)
    IN  IF berth_range = NoRange THEN NaN
        ELSE IF berth_range[2] - berth_range[1] <= 0 THEN NaN
        ELSE berth_range[2] - berth_range[1]

\* A height that takes the length first and the span only without one.
compute_item_height_length_first(row) ==
    LET berth_span == resolve_berth_span(row)
        max_height == IF berth_span # NaN THEN berth_span
                      ELSE BERTH_VERTICAL_SPAN_PX
        range      == extract_meter_range(row)
        span       == range[2] - range[1]
        length_val == IF row.loa_m = NaN THEN row.length_m ELSE row.loa_m
    IN  IF length_val # NaN
        THEN Max2(MinItemHeight, Min2(max_height, length_val))
        ELSE IF range[1] # NaN /\ range[2] # NaN /\ span > 0
        THEN Max2(MinItemHeight, Min2(max_height, span))
        ELSE DefaultItemHeight

compute_item_height(row) ==
    LET berth_span == resolve_berth_span(row)
        max_height == IF berth_span # NaN THEN berth_span
                      ELSE BERTH_VERTICAL_SPAN_PX
        range      == extract_meter_range(row)
        span       == range[2] - range[1]
        length_val == IF row.loa_m = NaN THEN row.length_m ELSE row.loa_m
    IN  IF range[1] # NaN /\ range[2] # NaN /\ span > 0
        THEN Max2(MinItemHeight,
                  Min2(max_height,
                       IF berth_span # NaN THEN Min2(span, berth_span)
                       ELSE span))
        ELSE IF length_val = NaN THEN DefaultItemHeight
        ELSE Max2(MinItemHeight, Min2(max_height, length_val))

\* An offset that is not held back by the height of the block.
compute_item_offset_unclamped(row, item_height) ==
    LET range       == extract_meter_range(row)
        berth_range == get_berth_meter_range(row.berth)
        anchors     == KnownValues(row, {"f_pos", "e_pos"}) \cup ({range[1], range[2]} \ {NaN})
    IN  IF anchors = {} THEN 0
        ELSE IF berth_range # NoRange /\ berth_range[2] > berth_range[1]
        THEN Min2(Max2(SetMin(anchors), berth_range[1]), berth_range[2])
                 - berth_range[1]
        ELSE Max2(0, BP_BASELINE_M - SetMax(anchors))

compute_item_offset(row, item_height) ==
    LET range       == extract_meter_range(row)
        start_meter == range[1]
        end_meter   == range[2]
        berth_range == get_berth_meter_range(row.berth)
    IN  IF berth_range # NoRange /\ berth_range[2] > berth_range[1]
        THEN
          LET berth_start == berth_range[1]
              berth_end   == berth_range[2]
              berth_span  == berth_end - berth_start
              candidates  == KnownValues(row, {"f_pos", "e_pos"})
              top_anchor  == IF start_meter # NaN THEN start_meter
                             ELSE IF end_meter # NaN THEN end_meter
                             ELSE IF candidates # {} THEN SetMin(candidates)
                             ELSE NaN
              clamped_top == Min2(Max2(top_anchor, berth_start), berth_end)
              offset      == clamped_top - berth_start
              max_offset  == Max2(0, berth_span - item_height)
          IN  IF top_anchor = NaN THEN 0
              ELSE Max2(0, Min2(offset, max_offset))
        ELSE
          LET candidates == ({start_meter, end_meter} \ {NaN})
                                \cup KnownValues(row, {"f_pos", "e_pos"})
              anchor     == SetMax(candidates)
              offset     == Max2(0, BP_BASELINE_M - anchor)
              max_offset == Max2(0, BERTH_VERTICAL_SPAN_PX - item_height)
          IN  IF candidates = {} THEN 0
              ELSE Min2(offset, max_offset)

\* ------------------------------------------------------------- app.py board

\* limit of push_history.
HistoryLimit == 20

\* push_history(snapshot, limit): the history list afterwards.
push_history(hist, snapshot, limit) ==
    LET appended == Append(hist, snapshot)
    IN  IF Len(appended) > limit THEN Tail(appended) ELSE appended

\* update_working_state: the rows of updated_partial replace the rows of the
\* working frame with the same index.
update_working_state(working, updated_partial) ==
    [i \in DOMAIN working |->
        IF i \in DOMAIN updated_partial THEN updated_partial[i] ELSE working[i]]

\* A key the event payload does not hold.
Absent == <<>>

\* The end of render_berth_gantt: the frame with the timeline event applied.
\* A payload is [id, start, end, group]; start, end and group are Absent or
\* <<value>>, times in seconds.
apply_event(prepared, payload, snap_choice) ==
    IF payload.id \notin DOMAIN prepared
       \/ (payload.start = Absent /\ payload.end = Absent /\ payload.group = Absent)
    THEN prepared
    ELSE
      LET row == prepared[payload.id]
          r1  == IF payload.start # Absent
                 THEN [row EXCEPT !.eta = app_snap_to_interval(payload.start[1], snap_choice)]
                 ELSE row
          r2  == IF payload.end # Absent
                 THEN [r1 EXCEPT !.etd = app_snap_to_interval(payload.end[1], snap_choice)]
                 ELSE r1
          r3  == IF payload.group # Absent
                 THEN [r2 EXCEPT !.berth = payload.group[1]]
                 ELSE r2
      IN  [prepared EXCEPT ![payload.id] = r3]

\* The undo button: history.pop() becomes the working frame.
undo_button(working, hist) ==
    IF hist # <<>>
    THEN [working_df |-> hist[Len(hist)], history |-> SubSeq(hist, 1, Len(hist) - 1)]
    ELSE [working_df |-> working, history |-> hist]

\* ------------------------------------------- save and the parallel sessions

\* _init_edit_buffers: the buffers of a session opened on the frame df_norm.
_init_edit_buffers(df_norm) == [df |-> df_norm, undo |-> NoFrame, logs |-> <<>>]

\* The working set as the frame create_version_with_assignments expects:
\* start and end are eta and etd, f (half metres) is start_meter.
AsBookings(df) ==
    [i \in DOMAIN df |->
        [vessel |-> df[i].vessel, berth |-> df[i].berth,
         eta |-> df[i].start, etd |-> df[i].end,
         loa_m |-> NaN,
         start_meter |-> IF df[i].f = NaN THEN NaN ELSE df[i].f \div 2]]

\* save(): Create Version with the working set, then an empty change log and
\* an empty undo buffer.
save(s, d, ss, source, label, vid, now) ==
    LET r == create_version_with_assignments(d, ss, AsBookings(s.df),
                                             source, label, vid, now)
    IN  [db |-> r.db, sess |-> r.sess, ok |-> r.ok,
         session |-> IF r.ok THEN [df |-> s.df, undo |-> NoFrame, logs |-> <<>>]
                     ELSE s]

\* ------------------------------------------- ui/viz/origin.py render, load

\* st.session_state of one browser session: has is the set of keys it
\* holds, the other fields their values.
EmptyState ==
    [has |-> {}, edit_df |-> <<>>, orig_df_snapshot |-> <<>>,
     undo_df |-> NoFrame, edit_logs |-> <<>>]

\* _init_edit_buffers on a session state: a key is set only when the state
\* does not hold it yet.
InitBuffersIn(st, df_norm) ==
    [has              |-> st.has \cup {"edit_df", "orig_df_snapshot", "undo_df", "edit_logs"},
     edit_df          |-> IF "edit_df" \in st.has THEN st.edit_df ELSE df_norm,
     orig_df_snapshot |-> IF "orig_df_snapshot" \in st.has THEN st.orig_df_snapshot
                          ELSE df_norm,
     undo_df          |-> IF "undo_df" \in st.has THEN st.undo_df ELSE NoFrame,
     edit_logs        |-> IF "edit_logs" \in st.has THEN st.edit_logs ELSE <<>>]

\* The head of render_origin_view: the buffers are initialised, then edit_df
\* takes a copy of the frame handed in.
render_origin_view(st, df_origin) ==
    [InitBuffersIn(st, df_origin) EXCEPT !.edit_df = df_origin]

\* _apply_move and undo on the buffers of a session state.
BuffersOf(st) == [df |-> st.edit_df, undo |-> st.undo_df, logs |-> st.edit_logs]

WithBuffers(st, s) ==
    [st EXCEPT !.edit_df = s.df, !.undo_df = s.undo, !.edit_logs = s.logs]

\* ------------------------------------------------------------ edit session

\* (start, end, f, e) of the rows a load may deliver, f and e in half metres:
\* on the grids, off the 5 minute grid with a reversed range, an empty span,
\* missing times, missing positions.
SeedShapes ==
    << <<0, 10, 0, 80>>, <<7, 9, 120, 60>>, <<10, 15, 40, 40>>,
       <<NaT, NaT, 0, 80>>, <<0, 10, NaN, NaN>> >>

\* The frame whose row i carries shape k + i (cyclically).
SeedFrame(k) ==
    [i \in 1..MaxRows |->
        LET sh == SeedShapes[((k + i - 2) % Len(SeedShapes)) + 1]
        IN  [row_id |-> i - 1, vessel |-> i, berth |-> 1,
             start |-> sh[1], end |-> sh[2], f |-> sh[3], e |-> sh[4]]]

\* (dmin, dy) of a gesture, dy in half metres: the key steps (5 min, 30 m)
\* and free drag values, among them a 15 m drag that lands between two grid
\* lines.
Gestures ==
    { <<5, 0>>, <<-5, 0>>, <<2, 0>>, <<0, 60>>, <<0, -60>>, <<0, 20>>,
      <<0, 30>>, <<5, 60>>, <<2, 20>> }

InWindow(df) ==
    \A i \in 1..Len(df) :
        /\ df[i].start = NaT \/ (df[i].start >= 0 /\ df[i].start <= MaxMinute)
        /\ df[i].end = NaT \/ (df[i].end >= 0 /\ df[i].end <= MaxMinute)
        /\ df[i].f = NaN \/ (df[i].f >= 0 /\ df[i].f <= 2 * MaxMeter)
        /\ df[i].e = NaN \/ (df[i].e >= 0 /\ df[i].e <= 2 * MaxMeter)

\* ops keeps the kinds of the last two operations; a move without effect that
\* follows another one is kept as "noop2".
PushOp(tag) ==
    LET t == IF tag = "noop" /\ ops # <<>> /\ ops[Len(ops)] \in {"noop", "noop2"}
             THEN "noop2" ELSE tag
    IN  IF ops = <<>> THEN <<t>> ELSE <<ops[Len(ops)], t>>

InitEdit ==
    /\ mode = "edit"
    /\ AppIdle /\ MultiIdle
    /\ \E k \in 1..Len(SeedShapes) : edit_df = SeedFrame(k)
    /\ undo_df = NoFrame
    /\ edit_logs = <<>>
    /\ ops = <<>>
    /\ noop_base = <<>>
    /\ StoreIdle
    /\ DetectIdle
    /\ CalcIdle

InNoopRun == ops # <<>> /\ ops[Len(ops)] \in {"noop", "noop2"}

ApplyMove ==
    /\ mode = "edit"
    /\ Len(edit_logs) < MaxLog
    /\ \E row_id \in 0..MaxRows, g \in Gestures :
          LET s == _apply_move(Session, row_id, g[1], g[2])
          IN  /\ InWindow(s.df)
              /\ edit_df' = s.df
              /\ undo_df' = s.undo
              /\ edit_logs' = s.logs
              /\ ops' = PushOp(IF s.df # edit_df THEN "move" ELSE "noop")
              /\ noop_base' = IF s.df # edit_df THEN <<>>
                              ELSE IF InNoopRun THEN noop_base ELSE <<Session>>
    /\ UNCHANGED <<mode, appVars, multiVars, calcVars, storeVars, detectVars>>

Undo ==
    /\ mode = "edit"
    /\ LET s == undo(Session)
       IN  /\ edit_df' = s.df
           /\ undo_df' = s.undo
           /\ edit_logs' = s.logs
           /\ ops' = PushOp(IF undo_df # NoFrame THEN "undo" ELSE "undo_empty")
           /\ noop_base' = IF InNoopRun THEN noop_base ELSE <<>>
    /\ UNCHANGED <<mode, appVars, multiVars, calcVars, storeVars, detectVars>>

NextEdit == ApplyMove \/ Undo

SpecEdit == InitEdit /\ [][NextEdit]_vars

\* ----------------------------------------------------------- store session

StoreShapes ==
    << [vessel |-> "A", berth |-> "B1", eta |-> 0, etd |-> 10,
        loa_m |-> 100, start_meter |-> 0],
       [vessel |-> "B", berth |-> "B2", eta |-> 5, etd |-> 15,
        loa_m |-> NaN, start_meter |-> NaN],
       [vessel |-> "A", berth |-> "B1", eta |-> BadTime, etd |-> 20,
        loa_m |-> NaN, start_meter |-> 130] >>

StoreFrame(k) ==
    [i \in 1..MaxStoreRows |-> StoreShapes[((k + i - 2) % Len(StoreShapes)) + 1]]

\* The berths upsert_reference_data seeds.
SeededBerths == {"B1"}

Sources == {"user-edit"}

Labels == {"plan"}

\* Cell writes the caller makes on the frame it handed to the store.
CellWrites == {<<"eta", 20>>, <<"eta", BadTime>>}

InitStore ==
    /\ mode = "store"
    /\ AppIdle /\ MultiIdle
    /\ edit_df = <<>> /\ undo_df = NoFrame /\ edit_logs = <<>>
    /\ ops = <<>> /\ noop_base = <<>>
    /\ \E k \in 1..Len(StoreShapes) : working_df = StoreFrame(k)
    /\ db = [EmptyDb EXCEPT !.berths = SeededBerths]
    /\ sess = EmptySess
    /\ clock = 0
    /\ created = <<>>
    /\ deleted = {}
    /\ last = NoOp
    /\ DetectIdle
    /\ CalcIdle

\* A call of create_version_with_assignments on the working frame.  A call
\* that raises leaves its unflushed rows in the session; the caller either
\* goes on with that session (keep) or drops it.
CreateVersion ==
    /\ mode = "store"
    /\ Cardinality(DOMAIN created) < MaxVersions
    /\ \E source \in Sources, label \in Labels, keep \in BOOLEAN :
         LET vid == NewVersionId(DOMAIN created, VersionIds(db))
             r   == create_version_with_assignments(db, sess, working_df,
                                                    source, label, vid, clock + 1)
         IN  /\ (r.ok => keep)
             /\ db' = r.db
             /\ sess' = IF keep THEN r.sess ELSE EmptySess
             /\ clock' = clock + 1
             /\ created' = (vid :> Len(working_df)) @@ created
             /\ last' = [op  |-> IF r.ok THEN "create" ELSE "create_failed",
                         ret |-> vid]
    /\ UNCHANGED <<mode, appVars, multiVars, calcVars, editVars, detectVars, working_df, deleted>>

DeleteVersions ==
    /\ mode = "store"
    /\ \E version_ids \in DeleteInputs :
         LET r == delete_versions(db, sess, version_ids)
         IN  /\ db' = r.db
             /\ sess' = r.sess
             /\ deleted' = deleted \cup (VersionIds(db) \ VersionIds(r.db))
             /\ last' = [op |-> "delete", ret |-> r.ret]
    /\ UNCHANGED <<mode, appVars, multiVars, calcVars, editVars, detectVars, working_df, clock, created>>

\* The caller writes a cell of the frame it holds.
MutateWorkingSet ==
    /\ mode = "store"
    /\ \E i \in 1..Len(working_df), w \in CellWrites :
         /\ working_df' = [working_df EXCEPT ![i] =
                              [@ EXCEPT !.eta = w[2]]]
         /\ working_df' # working_df
    /\ last' = [op |-> "mutate", ret |-> 0]
    /\ UNCHANGED <<mode, appVars, multiVars, calcVars, editVars, detectVars, db, sess, clock, created, deleted>>

\* The LOA maps a back-fill from the reference source brings: a LOA for a
\* vessel of the frames (stored already or not yet), or nothing for it.
LoaMappings == {("A" :> 100), ("A" :> NaN)}

SetVesselsLoa ==
    /\ mode = "store"
    /\ \E mapping \in LoaMappings :
         LET r == set_vessels_loa(db, sess, mapping)
         IN  /\ db' = r.db
             /\ sess' = r.sess
             /\ last' = [op |-> "set_loa", ret |-> r.ret]
    /\ UNCHANGED <<mode, appVars, multiVars, calcVars, editVars, detectVars,
                   working_df, clock, created, deleted>>

NextStore == CreateVersion \/ DeleteVersions \/ MutateWorkingSet \/ SetVesselsLoa

SpecStore == InitStore /\ [][NextStore]_vars

\* ----------------------------------------------------------- check session

ViewBerths == {1, 2}

\* <<eta, etd>>: one interval spanning the two others, which touch.
ViewIntervals == {<<0, 3>>, <<1, 2>>, <<2, 3>>}

\* <<start_meter, end_meter>>; loa_m is the length of the range and y_m its
\* start.
ViewRanges == {<<0, 100>>, <<130, 200>>, <<129, 200>>}

\* The berth and the interval of the rows without position data.
NoPositionBerths == {1}

NoPositionIntervals == {<<2, 3>>}

\* A row without position data: no start_meter and no end_meter; its y_m is
\* what normalize_df makes of a missing bp, bp.fillna(0).
NoPositionRows ==
    {[berth       |-> b,
      eta         |-> t[1],
      etd         |-> t[2],
      start_meter |-> NaN,
      end_meter   |-> NaN,
      loa_m       |-> 100,
      y_m         |-> 0] :
        b \in NoPositionBerths, t \in NoPositionIntervals}

ViewRows ==
    {[berth       |-> b,
      eta         |-> t[1],
      etd         |-> t[2],
      start_meter |-> m[1],
      end_meter   |-> m[2],
      loa_m       |-> m[2] - m[1],
      y_m         |-> m[1]] :
        b \in ViewBerths, t \in ViewIntervals, m \in ViewRanges}
    \cup NoPositionRows

InitDetect ==
    /\ mode = "detect"
    /\ AppIdle /\ MultiIdle
    /\ edit_df = <<>> /\ undo_df = NoFrame /\ edit_logs = <<>>
    /\ ops = <<>> /\ noop_base = <<>>
    /\ StoreIdle
    /\ \E n \in 0..MaxViewRows : view_df \in [1..n -> ViewRows]
    /\ found = NoCheck
    /\ CalcIdle

RunTemporal ==
    /\ mode = "detect"
    /\ found' = [check |-> "validate_temporal_overlaps",
                 out   |-> validate_temporal_overlaps(view_df)]
    /\ UNCHANGED <<mode, appVars, multiVars, calcVars, editVars, storeVars, view_df>>

RunSpatialGap ==
    /\ mode = "detect"
    /\ found' = [check |-> "validate_spatial_gap",
                 out   |-> validate_spatial_gap(view_df, MinGap)]
    /\ UNCHANGED <<mode, appVars, multiVars, calcVars, editVars, storeVars, view_df>>

RunSpacingConflicts ==
    /\ mode = "detect"
    /\ found' = [check |-> "collect_spacing_conflicts",
                 out   |-> collect_spacing_conflicts(view_df, MinGap)]
    /\ UNCHANGED <<mode, appVars, multiVars, calcVars, editVars, storeVars, view_df>>

RunValidateDf ==
    /\ mode = "detect"
    /\ found' = [check |-> "validate_df", out |-> validate_df(view_df)]
    /\ UNCHANGED <<mode, appVars, multiVars, calcVars, editVars, storeVars, view_df>>

NextDetect == RunTemporal \/ RunSpatialGap \/ RunSpacingConflicts \/ RunValidateDf

SpecDetect == InitDetect /\ [][NextDetect]_vars

\* ------------------------------------------------------------ snap session

\* Minutes of the first hours that timestamps are drawn from.
MaxSnapMinute == 125

DayMinutes == 1440

\* Minutes around midnight, where the 5-minute snap carries into the next day.
MidnightWindow == {DayMinutes + d : d \in (-8)..8}

SnapSeconds == {0, 1, 59}

\* 10:47.
ExampleMinutes == {10 * 60 + 47}

SnapTimes ==
    {60 * m + sec : m \in (0..MaxSnapMinute) \cup MidnightWindow \cup ExampleMinutes,
                    sec \in SnapSeconds}
    \cup {NaT}

\* Meter values, in half metres, on both sides of 0.
SnapMeters == (-2 * MaxMeter)..(2 * MaxMeter)

SnapChoices == {"1h", "30m", "15m"}

InitSnap ==
    /\ mode = "snap"
    /\ AppIdle /\ MultiIdle
    /\ edit_df = <<>> /\ undo_df = NoFrame /\ edit_logs = <<>>
    /\ ops = <<>> /\ noop_base = <<>>
    /\ StoreIdle
    /\ DetectIdle
    /\ \/ \E ts \in SnapTimes : calc_arg = [kind |-> "time", v |-> ts]
       \/ \E y \in SnapMeters : calc_arg = [kind |-> "meter", v |-> y]
    /\ calc_res = NoCalc

\* The record of applying fn with grid g to the current value: `first` is
\* the input of the first of the applications of fn and g in a row, `rep`
\* says whether this one repeats the one before.
Applied(fn, g, out) ==
    LET again == calc_res.fn = fn /\ calc_res.g = g
    IN  [fn    |-> fn,
         g     |-> g,
         in    |-> calc_arg.v,
         out   |-> out,
         rep   |-> again,
         first |-> IF again THEN calc_res.first ELSE calc_arg.v]

SnapStep(fn, g, out) ==
    /\ calc_res' = Applied(fn, g, out)
    /\ calc_arg' = [calc_arg EXCEPT !.v = out]
    /\ UNCHANGED <<mode, appVars, multiVars, editVars, storeVars, detectVars>>

SnapValidate ==
    /\ mode = "snap" /\ calc_arg.kind = "time"
    /\ \E interval \in SnapChoices :
         SnapStep("validate.snap_to_interval", GridMinutes(interval),
                  validate_snap_to_interval(calc_arg.v, interval))

SnapLayout ==
    /\ mode = "snap" /\ calc_arg.kind = "time"
    /\ \E snap_choice \in SnapChoices :
         SnapStep("berth_layout.snap_to_interval", GridMinutes(snap_choice),
                  layout_snap_to_interval(calc_arg.v, snap_choice))

\* The callers hand app.snap_to_interval a parsed timestamp.
SnapApp ==
    /\ mode = "snap" /\ calc_arg.kind = "time" /\ calc_arg.v # NaT
    /\ \E key \in SnapChoices :
         SnapStep("app.snap_to_interval", GridMinutes(key),
                  app_snap_to_interval(calc_arg.v, key))

SnapTime5 ==
    /\ mode = "snap" /\ calc_arg.kind = "time"
    /\ SnapStep("snap_time_5min", 5, snap_time_5min_of(calc_arg.v))

SnapY ==
    /\ mode = "snap" /\ calc_arg.kind = "meter"
    /\ SnapStep("snap_y_30m", Y_GRID_M, snap_y_30m(calc_arg.v))

NextSnap == SnapValidate \/ SnapLayout \/ SnapApp \/ SnapTime5 \/ SnapY

SpecSnap == InitSnap /\ [][NextSnap]_vars

\* ----------------------------------------------------------- label session

\* Characters of a raw berth label.
MaxLabelLen == 4

LabelChars == {"0", "1", "3", "9", "(", ")", ".", " ", "A"}

LabelTexts == UNION {[1..n -> LabelChars] : n \in 0..MaxLabelLen}

\* None or a float NaN.
NullValue == [null |-> TRUE, v |-> <<>>]

TextValue(text) == [null |-> FALSE, v |-> text]

InitLabel ==
    /\ mode = "label"
    /\ AppIdle /\ MultiIdle
    /\ edit_df = <<>> /\ undo_df = NoFrame /\ edit_logs = <<>>
    /\ ops = <<>> /\ noop_base = <<>>
    /\ StoreIdle
    /\ DetectIdle
    /\ \/ calc_arg = NullValue
       \/ \E text \in LabelTexts : calc_arg = TextValue(text)
    /\ calc_res = NoCalc

NormalizeLabel ==
    /\ mode = "label"
    /\ calc_res' = [fn  |-> "normalize_berth_label",
                    out |-> normalize_berth_label(calc_arg)]
    /\ UNCHANGED <<mode, appVars, multiVars, editVars, storeVars, detectVars, calc_arg>>

NextLabel == NormalizeLabel

SpecLabel == InitLabel /\ [][NextLabel]_vars

\* ---------------------------------------------------------- layout session

\* Berth labels of a row: none, a known berth at either end of the quay, a
\* known berth with a suffix, and a berth without a meter range.
LayoutBerths ==
    {NullValue, TextValue(<<"1">>), TextValue(<<"5">>),
     TextValue(<<"5", "(", "1", ")">>), TextValue(<<"9">>)}

\* start_meter and end_meter of a row.
LayoutMeters == {NaN, 0, 10, 290, 1200, 1600}

\* f_pos and e_pos of a row.
LayoutPositions == {NaN, 150, 1400}

\* loa_m and length_m of a row.
LayoutLoas == {NaN, 10, 200, 400}

LayoutLengths == {NaN, 120}

LayoutRows ==
    [berth : LayoutBerths, start_meter : LayoutMeters, end_meter : LayoutMeters,
     f_pos : LayoutPositions, e_pos : LayoutPositions,
     loa_m : LayoutLoas, length_m : LayoutLengths]

InitLayout ==
    /\ mode = "layout"
    /\ AppIdle /\ MultiIdle
    /\ edit_df = <<>> /\ undo_df = NoFrame /\ edit_logs = <<>>
    /\ ops = <<>> /\ noop_base = <<>>
    /\ StoreIdle
    /\ DetectIdle
    /\ calc_arg \in LayoutRows
    /\ calc_res = NoCalc

\* height_px = compute_item_height(row)
ComputeHeight ==
    /\ mode = "layout"
    /\ calc_res' = [fn |-> "compute_item_height",
                    out |-> compute_item_height(calc_arg)]
    /\ UNCHANGED <<mode, appVars, multiVars, editVars, storeVars, detectVars, calc_arg>>

\* offset_px = compute_item_offset(row, height_px)
ComputeOffset ==
    /\ mode = "layout"
    /\ calc_res.fn = "compute_item_height"
    /\ calc_res' = [fn |-> "compute_item_offset",
                    height |-> calc_res.out,
                    out |-> compute_item_offset(calc_arg, calc_res.out)]
    /\ UNCHANGED <<mode, appVars, multiVars, editVars, storeVars, detectVars, calc_arg>>

NextLayout == ComputeHeight \/ ComputeOffset

SpecLayout == InitLayout /\ [][NextLayout]_vars

\* ------------------------------------------------------------ board session

\* Edits a behaviour of the board keeps in its history.
MaxHistory == 3

\* Start and end times (seconds) a drag on the board delivers.
EventStarts == {0, 45 * 60, 60 * 60}

EventEnds == {2 * 60 * 60 + 45}

EventGroups == {"1", "2"}

\* The payloads of the timeline: a drag in time, a resize, a drag to another
\* lane, a click; on the one row or on an item the frame does not hold.
Payloads ==
    {[id |-> id, start |-> s, end |-> e, group |-> g] :
        id \in 1..2,
        s \in {Absent} \cup {<<t>> : t \in EventStarts},
        e \in {Absent} \cup {<<t>> : t \in EventEnds},
        g \in {Absent} \cup {<<b>> : b \in EventGroups}}

BoardFrames ==
    {<<[berth |-> b, eta |-> 0, etd |-> 2 * 60 * 60]>> : b \in EventGroups}

\* The board before its first event: the frame as fetched, no history.  last
\* keeps the kind of the last two operations, the frame before the last one
\* and base, <<frame>> before the latest edit that no undo has followed.
InitApp ==
    /\ mode = "app"
    /\ edit_df = <<>> /\ undo_df = NoFrame /\ edit_logs = <<>>
    /\ ops = <<>> /\ noop_base = <<>>
    /\ working_df \in BoardFrames
    /\ history = <<>>
    /\ db = EmptyDb /\ sess = EmptySess /\ clock = 0
    /\ created = <<>> /\ deleted = {}
    /\ last = [op |-> "none", prev |-> "none", pre |-> <<>>, base |-> <<>>,
               want |-> <<>>]
    /\ DetectIdle
    /\ CalcIdle
    /\ MultiIdle

\* One rerun with a timeline event: the frame the timeline returns differs
\* from the one it was given, so the working frame goes to the history and
\* takes the update; or it does not differ and nothing is kept.
TimelineEvent ==
    /\ mode = "app"
    /\ \E payload \in Payloads, snap_choice \in SnapChoices :
         LET updated == apply_event(working_df, payload, snap_choice)
         IN  IF updated # working_df
             THEN /\ Len(history) < MaxHistory
                  /\ history' = push_history(history, working_df, HistoryLimit)
                  /\ working_df' = update_working_state(working_df, updated)
                  /\ last' = [op |-> "edit", prev |-> last.op, pre |-> working_df,
                              base |-> <<working_df>>, want |-> <<>>]
             ELSE /\ UNCHANGED <<history, working_df>>
                  /\ last' = [op |-> "noop", prev |-> last.op, pre |-> working_df,
                              base |-> last.base, want |-> <<>>]
    /\ UNCHANGED <<mode, multiVars, calcVars, editVars, detectVars,
                   db, sess, clock, created, deleted>>

\* One rerun with the undo button pressed.
UndoButton ==
    /\ mode = "app"
    /\ LET r == undo_button(working_df, history)
       IN  /\ working_df' = r.working_df
           /\ history' = r.history
    /\ last' = [op |-> "undo", prev |-> last.op, pre |-> working_df,
                base |-> <<>>, want |-> last.base]
    /\ UNCHANGED <<mode, multiVars, calcVars, editVars, detectVars,
                   db, sess, clock, created, deleted>>

NextApp == TimelineEvent \/ UndoButton

SpecApp == InitApp /\ [][NextApp]_vars

\* -------------------------------------------------------- parallel sessions

SessionIds == {1, 2}

\* The seeds whose rows a version can hold: eta and etd are not null.
StoredSeeds ==
    {k \in 1..Len(SeedShapes) :
        \A i \in 1..MaxRows : SeedFrame(k)[i].start # NaT /\ SeedFrame(k)[i].end # NaT}

\* The gestures of the parallel sessions: a key step in time and a drag that
\* the time grid swallows, on the first row or on a row the frame lacks.
MultiGestures == {<<5, 0>>, <<2, 0>>}

MultiRowIds == {0, MaxRows}

\* Version 1 holds the source frame; every session is opened on it.  created
\* keeps, for each version, the rows a load returned when it was created.
InitMulti ==
    /\ mode = "multi"
    /\ AppIdle
    /\ edit_df = <<>> /\ undo_df = NoFrame /\ edit_logs = <<>>
    /\ ops = <<>> /\ noop_base = <<>>
    /\ \E k \in StoredSeeds :
         LET r == create_version_with_assignments(EmptyDb, EmptySess,
                      AsBookings(SeedFrame(k)), "crawler", "plan", 1, 1)
         IN  /\ db = r.db
             /\ sess = r.sess
             /\ created = (1 :> load_assignments_df(r.db, 1))
             /\ sessions = [s \in SessionIds |-> _init_edit_buffers(SeedFrame(k))]
    /\ working_df = <<>>
    /\ clock = 1
    /\ deleted = {}
    /\ last = [op |-> "open", by |-> 0, prev |-> "none", prevby |-> 0,
               ret |-> 1, fresh |-> TRUE, had |-> FALSE, prevhad |-> FALSE]
    /\ DetectIdle
    /\ CalcIdle

\* The record of an operation of session s: its kind, the kind and session
\* of the one before, what it returned, and whether the session held a
\* buffered frame or a log entry when it began.
LastOp(op, s, ret, fresh) ==
    [op |-> op, by |-> s, prev |-> last.op, prevby |-> last.by,
     ret |-> ret, fresh |-> fresh,
     had |-> sessions[s].undo # NoFrame \/ sessions[s].logs # <<>>,
     prevhad |-> last.had]

\* A gesture in session s.
MultiMove(s) ==
    /\ mode = "multi"
    /\ Len(sessions[s].logs) < MaxLog
    /\ \E row_id \in MultiRowIds, g \in MultiGestures :
         LET after == _apply_move(sessions[s], row_id, g[1], g[2])
         IN  /\ InWindow(after.df)
             /\ sessions' = [sessions EXCEPT ![s] = after]
             /\ last' = LastOp(IF after.df # sessions[s].df THEN "move" ELSE "noop",
                               s, 0, FALSE)
    /\ UNCHANGED <<mode, appVars, calcVars, editVars, detectVars,
                   working_df, db, sess, clock, created, deleted>>

\* The undo control of session s.
MultiUndo(s) ==
    /\ mode = "multi"
    /\ sessions' = [sessions EXCEPT ![s] = undo(sessions[s])]
    /\ last' = LastOp("undo", s, 0, FALSE)
    /\ UNCHANGED <<mode, appVars, calcVars, editVars, detectVars,
                   working_df, db, sess, clock, created, deleted>>

\* The save control of session s.
MultiSave(s) ==
    /\ mode = "multi"
    /\ Cardinality(DOMAIN created) < MaxVersions + 1
    /\ LET vid == NewVersionId(DOMAIN created, VersionIds(db))
           r   == save(sessions[s], db, sess, "user-edit", "plan", vid, clock + 1)
       IN  /\ db' = r.db
           /\ sess' = r.sess
           /\ clock' = clock + 1
           /\ sessions' = [sessions EXCEPT ![s] = r.session]
           /\ created' = IF vid \in DOMAIN created THEN created
                          ELSE (vid :> load_assignments_df(r.db, vid)) @@ created
           /\ last' = LastOp(IF r.ok THEN "save" ELSE "save_failed", s, vid,
                             vid \notin VersionIds(db))
    /\ UNCHANGED <<mode, appVars, calcVars, editVars, detectVars,
                   working_df, deleted>>

NextMulti == \E s \in SessionIds : MultiMove(s) \/ MultiUndo(s) \/ MultiSave(s)

SpecMulti == InitMulti /\ [][NextMulti]_vars

\* ------------------------------------------------------------- load session

\* One browser session after its first render of a frame.  last keeps the
\* kind of the last two operations and the frame loaded last.
InitLoad ==
    /\ mode = "load"
    /\ AppIdle
    /\ edit_df = <<>> /\ undo_df = NoFrame /\ edit_logs = <<>>
    /\ ops = <<>> /\ noop_base = <<>>
    /\ \E k \in 1..Len(SeedShapes) :
         /\ sessions = (1 :> render_origin_view(EmptyState, SeedFrame(k)))
         /\ last = [op |-> "open", prev |-> "none", source |-> SeedFrame(k)]
    /\ working_df = <<>> /\ db = EmptyDb /\ sess = EmptySess /\ clock = 0
    /\ created = <<>> /\ deleted = {}
    /\ DetectIdle
    /\ CalcIdle

\* A gesture on the loaded frame.
LoadMove ==
    /\ mode = "load"
    /\ Len(sessions[1].edit_logs) < MaxLog
    /\ \E row_id \in MultiRowIds, g \in MultiGestures :
         LET s == _apply_move(BuffersOf(sessions[1]), row_id, g[1], g[2])
         IN  /\ InWindow(s.df)
             /\ sessions' = (1 :> WithBuffers(sessions[1], s))
             /\ last' = [last EXCEPT !.op = "move", !.prev = last.op]
    /\ UNCHANGED <<mode, appVars, calcVars, editVars, detectVars,
                   working_df, db, sess, clock, created, deleted>>

\* The undo control.
LoadUndo ==
    /\ mode = "load"
    /\ sessions' = (1 :> WithBuffers(sessions[1], undo(BuffersOf(sessions[1]))))
    /\ last' = [last EXCEPT !.op = "undo", !.prev = last.op]
    /\ UNCHANGED <<mode, appVars, calcVars, editVars, detectVars,
                   working_df, db, sess, clock, created, deleted>>

\* The frame of another version, or a freshly fetched one, is rendered in
\* the same browser session.
LoadOther ==
    /\ mode = "load"
    /\ \E k \in 1..Len(SeedShapes) :
         /\ SeedFrame(k) # last.source
         /\ sessions' = (1 :> render_origin_view(sessions[1], SeedFrame(k)))
         /\ last' = [op |-> "load", prev |-> last.op, source |-> SeedFrame(k)]
    /\ UNCHANGED <<mode, appVars, calcVars, editVars, detectVars,
                   working_df, db, sess, clock, created, deleted>>

NextLoad == LoadMove \/ LoadUndo \/ LoadOther

SpecLoad == InitLoad /\ [][NextLoad]_vars

\* ------------------------------------------------------ crawler.py G page

\* The parsed page (what BeautifulSoup hands to parse_berth_g_html): the
\* child nodes of section#layer1 in document order and the Calendar table.
\* An href is the text before the arguments, the arguments between the
\* parentheses (a tuple of literals, or NoLiteral for text that is no
\* Python literal) and whether the text ends with ")".
NoLiteral == <<"?">>

NoSection == [present |-> FALSE]

NoTable == [present |-> FALSE]

\* select("section#layer1 > a[href^='javascript:VslMsg']")
IsVslMsgAnchor(node) ==
    node.tag = "a" /\ node.href.head = "javascript:VslMsg("

VslMsgAnchors(layer1) == SelectSeq(layer1, IsVslMsgAnchor)

\* _parse_vslmsg_args: the argument tuple, or <<>> for None.
_parse_vslmsg_args(href) ==
    IF href.head # "javascript:VslMsg(" \/ ~href.closed THEN <<>>
    ELSE IF href.args = NoLiteral THEN <<>>
    ELSE href.args

\* get_text(strip=True) or None
TextOrNone(text) ==
    IF Strip(text) = <<>> THEN NullValue ELSE TextValue(Strip(text))

\* An etd taken from the middle cell.
_extract_time_cells_mid(section) ==
    LET cells == IF section.present THEN section.cells ELSE <<>>
    IN  [eta_display |-> IF Len(cells) >= 1 THEN TextOrNone(cells[1]) ELSE NullValue,
         etd_display |-> IF Len(cells) >= 2 THEN TextOrNone(cells[2]) ELSE NullValue,
         mid_display |-> IF Len(cells) >= 2 THEN TextOrNone(cells[2]) ELSE NullValue]

\* _extract_time_cells: the td cells of the section's first table.
_extract_time_cells(section) ==
    LET cells == IF section.present THEN section.cells ELSE <<>>
    IN  [eta_display |-> IF Len(cells) >= 1 THEN TextOrNone(cells[1]) ELSE NullValue,
         etd_display |-> IF Len(cells) >= 3 THEN TextOrNone(cells[3]) ELSE NullValue,
         mid_display |-> IF Len(cells) >= 2 THEN TextOrNone(cells[2]) ELSE NullValue]

\* _collect_info_lines: the first line and the lines after it.
_collect_info_lines(section) ==
    IF ~section.present \/ section.lines = <<>>
    THEN [label |-> NullValue, lines |-> <<>>]
    ELSE [label |-> TextValue(Head(section.lines)), lines |-> Tail(section.lines)]

\* _parse_css_numeric, the colour: the value of background-color in the
\* style, absent when the style has none.
_parse_css_numeric(section) ==
    IF section.present THEN section.background_color ELSE NullValue

\* row[name] = value for name, value in zip(names, msg_args)
ArgNamed(msg_args, position) ==
    IF position <= Len(msg_args) THEN TextValue(msg_args[position]) ELSE NullValue

\* One row of blocks: the columns index, block_id, info_id, the colour, the
\* time cells, the info label and lines, and of the VslMsg arguments the
\* service code (2nd), the berth code (4th) and the vessel name (10th).
BlockRow(idx, anchor) ==
    LET msg_args == _parse_vslmsg_args(anchor.href)
        times    == _extract_time_cells(anchor.block)
        info     == _collect_info_lines(anchor.info)
    IN  [index            |-> idx,
         block_id         |-> IF anchor.block.present THEN TextValue(anchor.block.id)
                              ELSE NullValue,
         info_id          |-> IF anchor.info.present THEN TextValue(anchor.info.id)
                              ELSE NullValue,
         background_color |-> _parse_css_numeric(anchor.block),
         eta_display      |-> times.eta_display,
         etd_display      |-> times.etd_display,
         mid_display      |-> times.mid_display,
         info_label       |-> info.label,
         info_lines       |-> info.lines,
         service_code     |-> ArgNamed(msg_args, 2),
         berth_code       |-> ArgNamed(msg_args, 4),
         vessel_name      |-> ArgNamed(msg_args, 10)]

\* The calendar rows of one tbody tr: none for a tr without td cells, else
\* one per cell after the first, with the header at the cell's place.
CalendarRowsOf(tr, date_headers) ==
    IF tr = <<>> THEN <<>>
    ELSE [idx_cell \in 1..(Len(tr) - 1) |->
             [berth_label |-> Strip(tr[1].text),
              date_label  |-> IF idx_cell <= Len(date_headers)
                              THEN TextValue(date_headers[idx_cell]) ELSE NullValue,
              cell_text   |-> TextOrNone(tr[idx_cell + 1].text),
              cell_class  |-> tr[idx_cell + 1].class]]

RECURSIVE CalendarRows(_, _)
CalendarRows(trs, date_headers) ==
    IF trs = <<>> THEN <<>>
    ELSE CalendarRowsOf(Head(trs), date_headers) \o CalendarRows(Tail(trs), date_headers)

parse_berth_g_html(page) ==
    LET anchors == VslMsgAnchors(page.layer1)
        headers == IF page.calendar.present
                   THEN [i \in 1..Len(page.calendar.headers) |->
                            Strip(page.calendar.headers[i])]
                   ELSE <<>>
    IN  [blocks   |-> [i \in 1..Len(anchors) |-> BlockRow(i - 1, anchors[i])],
         calendar |-> IF page.calendar.present
                      THEN CalendarRows(page.calendar.rows,
                                        IF headers = <<>> THEN <<>> ELSE Tail(headers))
                      ELSE <<>>]

\* ------------------------------------------------------------ parse session

MaxAnchors == 2

MaxCalendarRows == 2

FullArgs ==
    <<"N", "SPSO", "2025", "1", "14", "09", "0", "S", "OP", "POS SHANGHAI",
      "remark", "memo">>

FullBlock ==
    [present |-> TRUE, id |-> "vsl1",
     background_color |-> TextValue("rgb(254,209,254)"),
     cells |-> << <<"1", "4">>, <<" ">>, <<"0", "9", " ">> >>]

\* A block section whose style names no colour and whose table has two cells.
PlainBlock ==
    [present |-> TRUE, id |-> "vsl2", background_color |-> NullValue,
     cells |-> << <<" ", "0", "1">>, <<"2", "2">> >>]

FullInfo == [present |-> TRUE, id |-> "vinf1", lines |-> <<"SPSO-40(S)", "pilot">>]

EmptyInfo == [present |-> TRUE, id |-> "vinf2", lines |-> <<>>]

\* Children of section#layer1: a complete block anchor, one whose href ends
\* after the ")", one with three arguments, one whose arguments are no
\* literal and that has no sections, an anchor of another script, and a
\* block anchor below a div (not a child of the section).
Layer1Nodes ==
    {[tag |-> "a", href |-> [head |-> "javascript:VslMsg(", args |-> FullArgs, closed |-> TRUE],
      block |-> FullBlock, info |-> FullInfo],
     [tag |-> "a", href |-> [head |-> "javascript:VslMsg(", args |-> FullArgs, closed |-> FALSE],
      block |-> PlainBlock, info |-> NoSection],
     [tag |-> "a", href |-> [head |-> "javascript:VslMsg(", args |-> <<"N", "KMTC", "2025">>, closed |-> TRUE],
      block |-> PlainBlock, info |-> EmptyInfo],
     [tag |-> "a", href |-> [head |-> "javascript:VslMsg(", args |-> NoLiteral, closed |-> TRUE],
      block |-> NoSection, info |-> FullInfo],
     [tag |-> "a", href |-> [head |-> "javascript:Other(", args |-> FullArgs, closed |-> TRUE],
      block |-> FullBlock, info |-> FullInfo],
     [tag |-> "div", href |-> [head |-> "javascript:VslMsg(", args |-> FullArgs, closed |-> TRUE],
      block |-> FullBlock, info |-> FullInfo]}

CalendarHeaders == << <<"B">>, <<"1", "0", ".", "2", "5">>, <<"1", "0", ".", "2", "6", " ">> >>

\* tbody rows: a berth with two date cells, a row of th cells alone (no td),
\* a berth with one date cell more than the head has dates.
CalendarTrs ==
    {<< [text |-> <<"1", " ", "(", "9", ")">>, class |-> <<>>],
        [text |-> <<>>, class |-> <<"bg_color13">>],
        [text |-> <<"x">>, class |-> <<>>] >>,
     <<>>,
     << [text |-> <<" ", "2">>, class |-> <<>>],
        [text |-> <<" ">>, class |-> <<"bg_color13", "on">>],
        [text |-> <<>>, class |-> <<>>],
        [text |-> <<"y">>, class |-> <<>>] >>}

Calendars ==
    {NoTable} \cup
    {[present |-> TRUE, headers |-> CalendarHeaders, rows |-> rows] :
        rows \in UNION {[1..n -> CalendarTrs] : n \in 0..MaxCalendarRows}}

Pages ==
    {[layer1 |-> layer1, calendar |-> calendar] :
        layer1 \in UNION {[1..n -> Layer1Nodes] : n \in 0..MaxAnchors},
        calendar \in Calendars}

InitParse ==
    /\ mode = "parse"
    /\ AppIdle /\ MultiIdle
    /\ edit_df = <<>> /\ undo_df = NoFrame /\ edit_logs = <<>>
    /\ ops = <<>> /\ noop_base = <<>>
    /\ StoreIdle
    /\ DetectIdle
    /\ calc_arg \in Pages
    /\ calc_res = NoCalc

ParseBerthG ==
    /\ mode = "parse"
    /\ calc_res = NoCalc
    /\ LET data == parse_berth_g_html(calc_arg)
       IN  calc_res' = [fn |-> "parse_berth_g_html",
                        blocks |-> data.blocks, calendar |-> data.calendar]
    /\ UNCHANGED <<mode, appVars, multiVars, editVars, storeVars, detectVars, calc_arg>>

NextParse == ParseBerthG

SpecParse == InitParse /\ [][NextParse]_vars

\* --------------------------------------------------------------- C1 and C2

\* Every move a gesture can ask of the current session.
MoveInputs == (0..MaxRows) \X Gestures

MoveOf(s, in) == _apply_move(s, in[1], in[2][1], in[2][2])

\* C1: from every working set the session reaches, a move that changes a
\* field followed at once by undo gives back that working set, every field
\* of every booking, and a change log as long as before the move.
C1_UndoRoundTrip ==
    mode = "edit" =>
        \A in \in MoveInputs :
            LET s1 == MoveOf(Session, in)
                s2 == undo(s1)
            IN  s1.df # edit_df =>
                    /\ s2.df = edit_df
                    /\ Len(s2.logs) = Len(edit_logs)

\* An effective move has just been undone.
C1_Witness ==
    /\ mode = "edit"
    /\ ops = <<"move", "undo">>
    /\ undo_df = NoFrame

AfterNoop == mode = "edit" /\ InNoopRun

\* An undo has just followed two or more moves without effect.
UndoAfterTwoNoops ==
    /\ mode = "edit"
    /\ Len(ops) = 2
    /\ ops[1] = "noop2"
    /\ ops[2] \in {"undo", "undo_empty"}

\* C2 as stated: a move that leaves start, end and both position bounds
\* alone writes no log entry and keeps the undo buffer, and two such moves
\* followed by one undo leave the session in the state it had before the
\* first of them.
C2_AsStated ==
    /\ AfterNoop => Session = noop_base[1]
    /\ UndoAfterTwoNoops => Session = noop_base[1]

\* C2 as amended: a move that leaves start, end and both position bounds
\* alone writes no log entry and keeps the undo buffer, and two such moves
\* followed by one undo leave the session where that one undo alone would
\* have left it before the first of them: in the state before the first of
\* them when the buffer was empty then, else in the buffered state.
C2_NoopMoveDiscipline ==
    /\ AfterNoop =>
          /\ edit_logs = noop_base[1].logs
          /\ undo_df = noop_base[1].undo
          /\ edit_df = noop_base[1].df
    /\ UndoAfterTwoNoops =>
          /\ Session = undo(noop_base[1])
          /\ noop_base[1].undo = NoFrame => Session = noop_base[1]

\* Two moves without effect came after an effective one, and then an undo
\* that took the buffered frame back.
C2_Witness ==
    /\ UndoAfterTwoNoops
    /\ ops[2] = "undo"
    /\ Session # noop_base[1]

\* ---------------------------------------------------------------- C3 .. C7

\* C3: once a version is stored, a write to the in-memory working frame it
\* was built from changes nothing in the rows load_assignments_df returns for
\* any stored version.
C3_StoredRowsDetached ==
    [][working_df' # working_df =>
          \A vid \in VersionIds(db) :
              load_assignments_df(db, vid)' = load_assignments_df(db, vid)]_vars

\* A version is stored whole, and the frame it was built from has since been
\* written to, so that a stored row and its frame row differ.
C3_Witness ==
    /\ mode = "store"
    /\ last.op = "mutate"
    /\ \E vid \in VersionIds(db) :
         /\ Cardinality(AssignmentsOf(db, vid)) = created[vid]
         /\ \E a \in AssignmentsOf(db, vid) :
              /\ a.id[2] <= Len(working_df)
              /\ working_df[a.id[2]].eta # a.eta
              /\ a \in AssignmentsOf(db, vid)
              /\ \E row \in load_assignments_df(db, vid) : row.eta = a.eta

\* C4: create_version is atomic: after a call that failed at some row the
\* tables hold neither the new version record nor any booking of it, and
\* list_versions shows no version with fewer bookings than the frame it was
\* created from.
C4_CreateAtomic ==
    /\ last.op = "create_failed" =>
          /\ last.ret \notin VersionIds(db)
          /\ AssignmentsOf(db, last.ret) = {}
    /\ \A i \in 1..Len(list_versions(db)) :
          list_versions(db)[i].count = created[list_versions(db)[i].id]

\* The tables after each store operation the session can run next.
NextTables ==
    {create_version_with_assignments(db, sess, working_df, source, label,
         NewVersionId(DOMAIN created, VersionIds(db)), clock + 1).db :
         source \in Sources, label \in Labels}
    \cup {delete_versions(db, sess, version_ids).db : version_ids \in DeleteInputs}

\* C5: a version id goes nonexistent -> active -> deleted and nothing else:
\* the id a create yields was never used, no store operation changes the
\* source, label, created_at or bookings of an active version, and a deleted
\* version is never active again.
C5_VersionLifecycle ==
    mode = "store" =>
      /\ NewVersionId(DOMAIN created, VersionIds(db)) \notin
             (DOMAIN created) \cup VersionIds(db) \cup deleted
      /\ deleted \cap VersionIds(db) = {}
      /\ \A d \in NextTables : \A v \in db.versions :
             v.id \in VersionIds(d) =>
                 /\ v \in d.versions
                 /\ AssignmentsOf(d, v.id) = AssignmentsOf(db, v.id)

\* C6: delete_versions(None) removes every version, delete_versions(ids)
\* removes exactly the stored versions whose id is in ids and leaves every
\* other version and its bookings as they were; the result is the number of
\* versions removed, 0 when none matches or ids is empty.
C6_DeleteVersions ==
    mode = "store" =>
      \A version_ids \in DeleteInputs :
        LET r   == delete_versions(db, sess, version_ids)
            sel == IF version_ids = AllVersions THEN VersionIds(db)
                   ELSE version_ids[1] \cap VersionIds(db)
        IN  /\ VersionIds(r.db) = VersionIds(db) \ sel
            /\ r.ret = Cardinality(sel)
            /\ \A v \in r.db.versions :
                 /\ v \in db.versions
                 /\ AssignmentsOf(r.db, v.id) = AssignmentsOf(db, v.id)

\* C7: list_versions has one entry per stored version, newest first, and
\* each entry's count is the number of rows the version was created with.
C7_ListVersions ==
    mode = "store" =>
      LET L == list_versions(db)
      IN  /\ Len(L) = Cardinality(VersionIds(db))
          /\ {L[i].id : i \in 1..Len(L)} = VersionIds(db)
          /\ \A i, j \in 1..Len(L) : i < j => L[i].id > L[j].id
          /\ \A i \in 1..Len(L) : L[i].count = created[L[i].id]

\* --------------------------------------------------------------- C8 .. C10

SameBerth(i, j) == view_df[i].berth = view_df[j].berth

\* C8: the temporal check reports exactly one violation for every pair of
\* rows on one berth whose intervals overlap, adjacent in start order or not,
\* and none for a pair that only touches.
C8_TemporalPairs ==
    found.check = "validate_temporal_overlaps" =>
      \A i, j \in DOMAIN view_df :
        (i < j /\ SameBerth(i, j)) =>
          LET n == Cardinality({v \in found.out : {v.prev, v.cur} = {i, j}})
          IN  /\ _overlap(view_df, i, j) => n = 1
              /\ (view_df[i].etd = view_df[j].eta \/ view_df[j].etd = view_df[i].eta)
                    => n = 0

AllBerthsDiffer ==
    \A i, j \in DOMAIN view_df : i # j => ~SameBerth(i, j)

\* C9: two rows on different berths never give a temporal or a spatial
\* violation: every violation of every check is between rows of one berth,
\* and a frame whose rows are all on different berths gives none.
C9_NoCrossBerth ==
    /\ found.check = "validate_temporal_overlaps" =>
          \A v \in found.out : SameBerth(v.prev, v.cur)
    /\ found.check = "validate_spatial_gap" =>
          \A v \in found.out : SameBerth(v.a, v.b)
    /\ found.check = "collect_spacing_conflicts" =>
          \A v \in found.out : SameBerth(v.previous_index, v.current_index)
    /\ found.check = "validate_df" =>
          \A v \in found.out :
              v.kind \in {"overlap", "clearance"} =>
                  \E i, j \in DOMAIN view_df :
                      /\ i # j
                      /\ view_df[i].berth = v.berth
                      /\ view_df[j].berth = v.berth
                      /\ _overlap(view_df, i, j)
    /\ (found.check # "none" /\ AllBerthsDiffer) =>
          \A v \in found.out :
              found.check = "validate_df" /\ v.kind \in {"terminal", "time"}

\* Two rows with the same interval and the same meter range on two berths
\* have been through the spatial check, and it returned nothing.
C9_Witness ==
    /\ mode = "detect"
    /\ found.check = "validate_spatial_gap"
    /\ Len(view_df) = 2
    /\ ~SameBerth(1, 2)
    /\ view_df[1].eta = view_df[2].eta /\ view_df[1].etd = view_df[2].etd
    /\ view_df[1].start_meter = view_df[2].start_meter
    /\ found.out = {}

\* The gap between two meter ranges: the start of the higher one less the
\* end of the lower one.
RangeGap(ra, rb) ==
    IF ra[1] <= rb[1] THEN rb[1] - ra[2] ELSE ra[1] - rb[2]

TwoOverlapping ==
    /\ Len(view_df) = 2
    /\ SameBerth(1, 2)
    /\ _overlap(view_df, 1, 2)
    /\ view_df[1].start_meter # NaN /\ view_df[2].start_meter # NaN

\* The meter range validate_spatial_gap gives a row.
LoaRange(r) == <<r.start_meter, r.start_meter + r.loa_m>>

MinGaps == {MinGap - 1, MinGap, MinGap + 1}

\* C10: for two rows on one berth that overlap in time, each spatial check
\* records a violation iff the gap of the two meter ranges is below
\* min_gap_m: with min_gap_m = 30, none for [0,100] and [130,200], and
\* exactly one, with gap 29, for [0,100] and [129,200].
C10_GapBoundary ==
    TwoOverlapping =>
      LET ga == RangeGap(MeterRange(view_df[1]), MeterRange(view_df[2]))
          gv == RangeGap(LoaRange(view_df[1]), LoaRange(view_df[2]))
          rs == {MeterRange(view_df[1]), MeterRange(view_df[2])}
          rv == {LoaRange(view_df[1]), LoaRange(view_df[2])}
      IN  /\ found.check = "collect_spacing_conflicts" =>
                /\ found.out # {} <=> ga < MinGap
                /\ Cardinality(found.out) <= 1
                /\ \A v \in found.out : v.gap = ga
                /\ rs = {<<0, 100>>, <<130, 200>>} => found.out = {}
                /\ rs = {<<0, 100>>, <<129, 200>>} =>
                      Cardinality(found.out) = 1 /\ \A v \in found.out : v.gap = 29
                /\ \A m \in MinGaps :
                      collect_spacing_conflicts(view_df, m) # {} <=> ga < m
          /\ found.check = "validate_spatial_gap" =>
                /\ found.out # {} <=> gv < MinGap
                /\ Cardinality(found.out) <= 1
                /\ \A v \in found.out : v.gap = gv
                /\ rv = {<<0, 100>>, <<130, 200>>} => found.out = {}
                /\ rv = {<<0, 100>>, <<129, 200>>} =>
                      Cardinality(found.out) = 1 /\ \A v \in found.out : v.gap = 29
                /\ \A m \in MinGaps :
                      validate_spatial_gap(view_df, m) # {} <=> gv < m

\* The ranges [0,100] and [129,200] on one berth at overlapping times have
\* been through collect_spacing_conflicts, and it recorded the gap 29.
C10_Witness ==
    /\ mode = "detect"
    /\ found.check = "collect_spacing_conflicts"
    /\ TwoOverlapping
    /\ {MeterRange(view_df[1]), MeterRange(view_df[2])} = {<<0, 100>>, <<129, 200>>}
    /\ \E v \in found.out : v.gap = 29

\* --------------------------------------------------------------- C11, C19

\* C11: snapping is idempotent: applying the same time snap with the same
\* grid, or the space snap, to its own result gives that result again.
C11_SnapIdempotent ==
    (calc_res.fn # "none" /\ mode = "snap") =>
        (calc_res.rep => calc_res.out = calc_res.in)

\* A snap moved a value, and the same snap has been applied to the result.
C11_Witness ==
    /\ mode = "snap"
    /\ calc_res.fn # "none"
    /\ calc_res.rep
    /\ calc_res.first # calc_res.in
    /\ calc_res.out = calc_res.in

TimeSnaps ==
    {"validate.snap_to_interval", "berth_layout.snap_to_interval",
     "app.snap_to_interval", "snap_time_5min"}

\* C19: a time snap floors: the result has zero seconds and a minute of the
\* hour that is a multiple of the grid, it is not after the timestamp and
\* less than one grid step before it (10:47 on the 30-minute grid gives
\* 10:30); no time snap of an edit moves a timestamp up.
C19_SnapFloors ==
    (mode = "snap" /\ calc_res.fn \in TimeSnaps /\ calc_res.in # NaT) =>
        /\ calc_res.out % 60 = 0
        /\ (Minutes(calc_res.out) % 60) % calc_res.g = 0
        /\ calc_res.out <= calc_res.in
        /\ calc_res.in - calc_res.out < 60 * calc_res.g
        /\ (Minutes(calc_res.in) = 10 * 60 + 47 /\ calc_res.g = 30
               /\ calc_res.fn # "snap_time_5min")
              => calc_res.out = 60 * (10 * 60 + 30)

\* ---------------------------------------------------------------------- C12

\* The first run of digits of a text.
RECURSIVE FirstRun(_)
FirstRun(text) ==
    IF text = <<>> THEN <<>>
    ELSE IF ~IsDigit(text[1]) THEN FirstRun(Tail(text))
    ELSE LET stop == {i \in 1..Len(text) : ~IsDigit(text[i])}
         IN  IF stop = {} THEN text
             ELSE SubSeq(text, 1, (CHOOSE i \in stop : \A j \in stop : i <= j) - 1)

\* The rule as stated: the digits before the first "(" when there are any,
\* else the digits inside the parentheses, else the first run of digits, else
\* the trimmed text; a null or empty value gives "".
StatedLabel(value) ==
    IF value.null THEN <<>>
    ELSE
      LET text   == Strip(value.v)
          open   == Find(text, "(", 0)
          close  == Find(text, ")", open + 1)
          prefix == IF open >= 0 THEN DigitsOf(Slice(text, 0, open)) ELSE <<>>
          inside == IF open >= 0 /\ close >= 0
                    THEN DigitsOf(Slice(text, open + 1, close)) ELSE <<>>
      IN  IF prefix # <<>> THEN StrInt(prefix)
          ELSE IF inside # <<>> THEN StrInt(inside)
          ELSE IF FirstRun(text) # <<>> THEN StrInt(FirstRun(text))
          ELSE text

\* C12: normalize_berth_label gives the digits before the first "(" when
\* there are any, else the digits inside the parentheses, else the first run
\* of digits of the text, else the trimmed text, and "" for a null or empty
\* value: "9(1)" gives "9", "(3)" gives "3", "" and None give "".
C12_LabelRule ==
    (mode = "label" /\ calc_res.fn = "normalize_berth_label") =>
        /\ calc_res.out = StatedLabel(calc_arg)
        /\ calc_arg = TextValue(<<"9", "(", "1", ")">>) => calc_res.out = <<"9">>
        /\ calc_arg = TextValue(<<"(", "3", ")">>) => calc_res.out = <<"3">>
        /\ calc_arg = TextValue(<<>>) => calc_res.out = <<>>
        /\ calc_arg = NullValue => calc_res.out = <<>>

\* ----------------------------------------------------------------- C13, C20

\* The lane's own span when the berth has a meter range, else the global
\* constant.
LaneMax(row) ==
    IF resolve_berth_span(row) # NaN THEN resolve_berth_span(row)
    ELSE BERTH_VERTICAL_SPAN_PX

Clamped(x, hi) == IF x < 24 THEN 24 ELSE IF x > hi THEN hi ELSE x

\* Both ends of the meter range are known and the span is positive.
UsableSpan(row) ==
    /\ extract_meter_range(row)[1] # NaN
    /\ extract_meter_range(row)[2] # NaN
    /\ extract_meter_range(row)[2] - extract_meter_range(row)[1] > 0

SpanOf(row) == extract_meter_range(row)[2] - extract_meter_range(row)[1]

\* C13 as stated: the height is the clamped span when there is a usable
\* span, else the clamped loa_m when there is one, else 86 for every row
\* with neither a usable span nor a loa_m.
C13_AsStated ==
    (mode = "layout" /\ calc_res.fn = "compute_item_height") =>
        /\ UsableSpan(calc_arg)
              => calc_res.out = Clamped(SpanOf(calc_arg), LaneMax(calc_arg))
        /\ (~UsableSpan(calc_arg) /\ calc_arg.loa_m # NaN)
              => calc_res.out = Clamped(calc_arg.loa_m, LaneMax(calc_arg))
        /\ (~UsableSpan(calc_arg) /\ calc_arg.loa_m = NaN)
              => calc_res.out = 86

\* C13: compute_item_height resolves in a fixed order: the span of the meter
\* range clamped to [24, lane max] when both ends are known and the span is
\* positive, whatever loa_m is; else loa_m clamped the same way; else
\* length_m clamped the same way; else, with no span and no length, 86.
C13_HeightOrder ==
    (mode = "layout" /\ calc_res.fn = "compute_item_height") =>
        /\ UsableSpan(calc_arg)
              => calc_res.out = Clamped(SpanOf(calc_arg), LaneMax(calc_arg))
        /\ (~UsableSpan(calc_arg) /\ calc_arg.loa_m # NaN)
              => calc_res.out = Clamped(calc_arg.loa_m, LaneMax(calc_arg))
        /\ (~UsableSpan(calc_arg) /\ calc_arg.loa_m = NaN
               /\ calc_arg.length_m # NaN)
              => calc_res.out = Clamped(calc_arg.length_m, LaneMax(calc_arg))
        /\ (~UsableSpan(calc_arg) /\ calc_arg.loa_m = NaN
               /\ calc_arg.length_m = NaN)
              => calc_res.out = 86

\* A row with a usable span and a loa_m that would give another height.
C13_Witness ==
    /\ mode = "layout" /\ calc_res.fn = "compute_item_height"
    /\ UsableSpan(calc_arg) /\ calc_arg.loa_m # NaN
    /\ calc_res.out = SpanOf(calc_arg)
    /\ calc_res.out # Clamped(calc_arg.loa_m, LaneMax(calc_arg))

\* C20: a rendered block stays in its lane: the height is at most the lane
\* span (the berth's own span when the berth has a meter range, else 300),
\* and when the berth has a meter range the offset computed for that height
\* lies in [0, lane span - height].
C20_BlockInLane ==
    /\ (mode = "layout" /\ calc_res.fn = "compute_item_height")
          => calc_res.out <= LaneMax(calc_arg)
    /\ (mode = "layout" /\ calc_res.fn = "compute_item_offset")
          => /\ calc_res.height <= LaneMax(calc_arg)
             /\ get_berth_meter_range(calc_arg.berth) # NoRange
                   => /\ 0 <= calc_res.out
                      /\ calc_res.out <= LaneMax(calc_arg) - calc_res.height

\* A row of a known berth whose range starts so far into the lane that the
\* offset is held back to lane span - height.
C20_Witness ==
    /\ mode = "layout" /\ calc_res.fn = "compute_item_offset"
    /\ get_berth_meter_range(calc_arg.berth) # NoRange
    /\ calc_res.out > 0
    /\ calc_res.out = LaneMax(calc_arg) - calc_res.height
    /\ extract_meter_range(calc_arg)[1]
           - get_berth_meter_range(calc_arg.berth)[1] > calc_res.out

\* ---------------------------------------------------------------------- C14

\* C14: the session keeps at most one undo step: one undo after effective
\* moves brings back the working set as it was just before the most recent
\* of them, and an undo that follows an undo leaves the working set as it is.
C14_OneUndoStep ==
    (mode = "app" /\ last.op = "undo") =>
        /\ last.want # <<>> => working_df = last.want[1]
        /\ last.prev = "undo" => working_df = last.pre

\* ----------------------------------------------------------------- C15, C16

\* The bookings a load of version vid returns, without the vessel's loa_m.
StoredBookings(vid) ==
    {[vessel |-> b.vessel, berth |-> b.berth, eta |-> b.eta, etd |-> b.etd,
      start_meter |-> b.start_meter] : b \in load_assignments_df(db, vid)}

\* The bookings of a working set.
WorkingBookings(df) ==
    {[vessel |-> df[i].vessel, berth |-> df[i].berth,
      eta |-> df[i].start, etd |-> df[i].end,
      start_meter |-> IF df[i].f = NaN THEN NaN ELSE df[i].f \div 2] :
        i \in DOMAIN df}

SavedJustNow ==
    /\ last.ret \notin {1}
    /\ last.fresh
    /\ last.ret \in VersionIds(db)
    /\ StoredBookings(last.ret) = WorkingBookings(sessions[last.by].df)
    /\ sessions[last.by].logs = <<>>
    /\ sessions[last.by].undo = NoFrame

UndoRightAfterSave ==
    (mode = "multi" /\ last.op = "save" /\ last'.op = "undo" /\ last'.by = last.by)
        => sessions'[last.by] = sessions[last.by]

EveryVersionAsCreated ==
    mode = "multi" =>
        /\ \A vid \in DOMAIN created :
              /\ vid \in VersionIds(db)
              /\ load_assignments_df(db, vid) = created[vid]
        /\ last.op = "save" => (last.fresh /\ last.ret \in DOMAIN created)

OthersUntouched ==
    mode = "multi" =>
        \A s \in SessionIds : last'.by # s => sessions'[s] = sessions[s]

TimesOverlap(i, j) ==
    /\ view_df[i].eta < view_df[j].etd
    /\ view_df[j].eta < view_df[i].etd

\* The rows of berth b in start order, as validate_df numbers them.
StartOrder(b) ==
    SortedBy(GroupOf(view_df, b), [i \in DOMAIN view_df |-> view_df[i].eta])

\* The pairs of rows the last spatial check reported.
ClearancePairs ==
    IF found.check = "validate_spatial_gap"
    THEN {<<v.a, v.b>> : v \in found.out}
    ELSE IF found.check = "collect_spacing_conflicts"
    THEN {<<v.previous_index, v.current_index>> : v \in found.out}
    ELSE IF found.check = "validate_df"
    THEN {<<StartOrder(v.berth)[v.i], StartOrder(v.berth)[v.j]>> :
             v \in {v \in found.out : v.kind = "clearance"}}
    ELSE {}

\* C17: the clearance check is applied among temporally overlapping rows
\* only: two rows of one berth whose intervals do not overlap are never in a
\* clearance violation, however close their meter ranges are.
C17_ClearanceNeedsOverlap ==
    mode = "detect" => \A p \in ClearancePairs : TimesOverlap(p[1], p[2])

NoPosition(i) == view_df[i].start_meter = NaN /\ view_df[i].end_meter = NaN

\* C18: a row without position data is in no clearance violation, and the
\* temporal check still reports it when its interval overlaps that of
\* another row of its berth.
C18_NoPositionRows ==
    mode = "detect" =>
        /\ \A p \in ClearancePairs : ~NoPosition(p[1]) /\ ~NoPosition(p[2])
        /\ found.check = "validate_temporal_overlaps" =>
              \A i, j \in DOMAIN view_df :
                  (i # j /\ NoPosition(i) /\ SameBerth(i, j) /\ TimesOverlap(i, j))
                      => \E v \in found.out : i \in {v.prev, v.cur}

\* ---------------------------------------------------------------------- C21

\* None of start_meter, end_meter, f_pos and e_pos is known.
NoPositionData(row) ==
    KnownValues(row, {"start_meter", "end_meter", "f_pos", "e_pos"}) = {}

\* C21: for a row without any position data compute_item_offset centres the
\* block in its lane: the offset is (lane height - height) / 2.
C21_CentredWithoutPosition ==
    (mode = "layout" /\ calc_res.fn = "compute_item_offset"
        /\ NoPositionData(calc_arg))
        => 2 * calc_res.out = LaneMax(calc_arg) - calc_res.height

\* ---------------------------------------------------------------------- C22

\* C22: loading another frame resets the session: the working set and the
\* revert snapshot are the loaded frame, the undo buffer and the change log
\* are empty, and an undo after the load does not bring back a state of the
\* data loaded before.
C22_LoadResets ==
    mode = "load" =>
        /\ last.op = "load" =>
              /\ sessions[1].edit_df = last.source
              /\ sessions[1].orig_df_snapshot = last.source
              /\ sessions[1].undo_df = NoFrame
              /\ sessions[1].edit_logs = <<>>
        /\ (last.op = "undo" /\ last.prev = "load") =>
              sessions[1].edit_df = last.source

\* ---------------------------------------------------------------------- C23
\* The tables after each later store operation on data other than
\* version v: a create (its id is never v), a LOA back-fill, a delete whose
\* ids leave v out.
TablesAfterOthers(v) ==
    {create_version_with_assignments(db, sess, working_df, source, label,
         NewVersionId(DOMAIN created, VersionIds(db)), clock + 1).db :
         source \in Sources, label \in Labels}
    \cup {set_vessels_loa(db, sess, mapping).db : mapping \in LoaMappings}
    \cup {delete_versions(db, sess, version_ids).db :
             version_ids \in {x \in DeleteInputs :
                                 x # AllVersions /\ v \notin x[1]}}

\* C23: the rows load_assignments_df returns for a stored version (vessel,
\* berth, eta, etd, loa_m, start_meter of each booking) are the same after
\* any store operation on other data: a create of another version, a vessel
\* LOA back-fill, a delete of other ids.
C23_LoadedRowsStable ==
    mode = "store" =>
        \A v \in VersionIds(db) : \A d \in TablesAfterOthers(v) :
            load_assignments_df(d, v) = load_assignments_df(db, v)

\* ---------------------------------------------------------------------- C24
\* C24: in every store state each persisted booking row references exactly
\* one version and that version is stored: no row is left whose version was
\* deleted, and a deleted version has none of its bookings left.
C24_BookingsOwned ==
    mode = "store" =>
        /\ \A a \in db.assignments :
               Cardinality({v \in db.versions : v.id = a.version_id}) = 1
        /\ \A vid \in deleted : AssignmentsOf(db, vid) = {}

\* ---------------------------------------------------------------------- C25
\* Places of the VslMsg anchors among the children of section#layer1.
AnchorPlaces(page) ==
    {i \in 1..Len(page.layer1) :
        /\ page.layer1[i].tag = "a"
        /\ page.layer1[i].href.head = "javascript:VslMsg("}

\* The k-th of them in document order.
KthAnchor(page, k) ==
    page.layer1[CHOOSE p \in AnchorPlaces(page) :
                    Cardinality({q \in AnchorPlaces(page) : q < p}) = k - 1]

\* Date cells of the berth rows before row r of the Calendar table.
RECURSIVE DateCellsBefore(_, _)
DateCellsBefore(rows, r) ==
    IF r <= 1 THEN 0
    ELSE DateCellsBefore(rows, r - 1)
         + (IF rows[r - 1] = <<>> THEN 0 ELSE Len(rows[r - 1]) - 1)

\* C25: parse_berth_g_html gives blocks exactly one row per VslMsg anchor
\* directly under section#layer1, in document order, with the anchor's
\* vessel name (10th argument of the call), info label (first info line),
\* ETA and ETD display cells (first and third cell) and background colour;
\* calendar has one row per berth row and date cell of the Calendar table,
\* with the row's berth label and the head's date above that cell.
C25_BlocksAndCalendar ==
    (mode = "parse" /\ calc_res.fn = "parse_berth_g_html") =>
        LET page   == calc_arg
            blocks == calc_res.blocks
            cal    == calc_res.calendar
            rows   == IF page.calendar.present THEN page.calendar.rows ELSE <<>>
        IN  /\ Len(blocks) = Cardinality(AnchorPlaces(page))
            /\ \A k \in 1..Len(blocks) :
                 LET a == KthAnchor(page, k)
                     b == blocks[k]
                 IN  /\ b.index = k - 1
                     /\ (a.href.closed /\ a.href.args # NoLiteral /\ Len(a.href.args) >= 10)
                            => b.vessel_name = TextValue(a.href.args[10])
                     /\ (a.info.present /\ a.info.lines # <<>>)
                            => b.info_label = TextValue(a.info.lines[1])
                     /\ a.block.present =>
                            /\ b.background_color = a.block.background_color
                            /\ Len(a.block.cells) >= 1 =>
                                   b.eta_display = TextOrNone(a.block.cells[1])
                            /\ Len(a.block.cells) >= 3 =>
                                   b.etd_display = TextOrNone(a.block.cells[3])
            /\ Len(cal) = DateCellsBefore(rows, Len(rows) + 1)
            /\ \A r \in 1..Len(rows) : \A j \in 2..Len(rows[r]) :
                 LET c == cal[DateCellsBefore(rows, r) + j - 1]
                 IN  /\ c.berth_label = Strip(rows[r][1].text)
                     /\ j <= Len(page.calendar.headers) =>
                            c.date_label = TextValue(Strip(page.calendar.headers[j]))

\* A page with a node that is no block anchor before a complete block anchor
\* and a Calendar table with berth rows has been parsed.
C25_Witness ==
    /\ mode = "parse" /\ calc_res.fn = "parse_berth_g_html"
    /\ Len(calc_arg.layer1) = 2 /\ Len(calc_res.blocks) = 1
    /\ ~IsVslMsgAnchor(calc_arg.layer1[1])
    /\ calc_res.blocks[1].vessel_name = TextValue("POS SHANGHAI")
    /\ calc_res.blocks[1].etd_display = TextValue(<<"0", "9">>)
    /\ Len(calc_res.calendar) >= 3

\* ---------------------------------------------------------------------- C26
\* The step is an _apply_move that changed a field.
MoveChanged == mode = "edit" /\ ops' # <<>> /\ ops'[Len(ops')] = "move"

\* C26: when _apply_move changes a field, undo_df afterwards holds exactly
\* the working set from before this move (whatever was buffered is gone),
\* exactly one entry with the booking's values before and after is appended
\* to edit_logs, and the returned working set carries the new values.
C26_MoveBuffersAndLogs ==
    [][MoveChanged =>
          /\ undo_df' = <<edit_df>>
          /\ Len(edit_logs') = Len(edit_logs) + 1
          /\ SubSeq(edit_logs', 1, Len(edit_logs)) = edit_logs
          /\ LET entry == edit_logs'[Len(edit_logs')]
                 i     == RowIndex(edit_df, entry.row_id)
             IN  /\ i # 0
                 /\ <<entry.start_before, entry.end_before,
                      entry.f_before, entry.e_before>>
                      = <<edit_df[i].start, edit_df[i].end, edit_df[i].f, edit_df[i].e>>
                 /\ <<entry.start_after, entry.end_after,
                      entry.f_after, entry.e_after>>
                      = <<edit_df'[i].start, edit_df'[i].end, edit_df'[i].f, edit_df'[i].e>>
                 /\ edit_df'[i] # edit_df[i]
                 /\ \A j \in 1..Len(edit_df) : j # i => edit_df'[j] = edit_df[j]
      ]_vars

\* Two moves in a row changed a field each: the buffer of the first was
\* replaced by the working set before the second.
C26_Witness ==
    /\ mode = "edit"
    /\ ops = <<"move", "move">>
    /\ Len(edit_logs) = 2
    /\ undo_df # NoFrame
    /\ undo_df[1] # edit_df
    /\ edit_logs[2].start_before = edit_logs[1].start_after

\* ---------------------------------------------------------------------- C27
\* C27: every booking of the working set that has its times satisfies
\* start < end in every state of an edit session; a time move with snapping
\* keeps it, also for a booking shorter than one grid step.
C27_StartBeforeEnd ==
    mode = "edit" =>
        \A i \in 1..Len(edit_df) :
            (edit_df[i].start # NaT /\ edit_df[i].end # NaT)
                => edit_df[i].start < edit_df[i].end

\* ---------------------------------------------------------------------- C28
\* The gap of rows i and j: the start of the higher range minus the end of
\* the lower one, each range put in order first.
PairGap(i, j) ==
    LET ri == MeterRange(view_df[i])
        rj == MeterRange(view_df[j])
    IN  IF ri[1] <= rj[1] THEN rj[1] - ri[2] ELSE ri[1] - rj[2]

\* C28: the spatial check is pairwise complete: for every two rows of one
\* berth that overlap in time, have position data and a gap below the
\* minimum, collect_spacing_conflicts records a violation with the berth,
\* the gap, both rows and both ranges, also when a third row lies between
\* the two in start-meter order.
C28_SpatialPairsComplete ==
    (mode = "detect" /\ found.check = "collect_spacing_conflicts") =>
        \A i, j \in DOMAIN view_df :
            (/\ i < j
             /\ SameBerth(i, j)
             /\ TimesOverlap(i, j)
             /\ ~NoPosition(i) /\ ~NoPosition(j)
             /\ PairGap(i, j) < MinGap)
            => \E v \in found.out :
                   /\ v.berth = view_df[i].berth
                   /\ {v.previous_index, v.current_index} = {i, j}
                   /\ v.gap = PairGap(i, j)
                   /\ {v.previous_range, v.current_range}
                          = {MeterRange(view_df[i]), MeterRange(view_df[j])}

\* ---------------------------------------------------------------------- C29
\* The moves with dy # 0 that hit a row whose position bounds are finite.
SpaceMoves ==
    {in \in MoveInputs :
        /\ in[2][2] # 0
        /\ RowIndex(edit_df, in[1]) # 0
        /\ _is_finite_num(edit_df[RowIndex(edit_df, in[1])].f)
        /\ _is_finite_num(edit_df[RowIndex(edit_df, in[1])].e)}

\* The row the move was aimed at, before and after it.
RowBefore(in) == edit_df[RowIndex(edit_df, in[1])]

RowAfter(in) == MoveOf(Session, in).df[RowIndex(edit_df, in[1])]

\* The new midpoint is the snapped shifted old one, the bounds lie
\* symmetrically around it and the span is as long as before (half metres).
MovedAroundMidpoint(in) ==
    LET new_mid == snap_y_30m((RowBefore(in).f + RowBefore(in).e) \div 2 + in[2][2])
    IN  /\ RowAfter(in).f + RowAfter(in).e = 2 * new_mid
        /\ new_mid - RowAfter(in).f = RowAfter(in).e - new_mid
        /\ Abs(RowAfter(in).e - RowAfter(in).f) = Abs(RowBefore(in).e - RowBefore(in).f)

\* C29 as stated: a spatial move with dy # 0 on a booking whose position
\* bounds are finite sets the new midpoint to snap_y_30m(old midpoint + dy)
\* and the bounds symmetrically around it, the span as long as before.
C29_AsStated ==
    mode = "edit" => \A in \in SpaceMoves : MovedAroundMidpoint(in)

\* C29 as amended: a spatial move with dy # 0 on a booking whose position
\* bounds are finite and differ sets the new midpoint to
\* snap_y_30m(old midpoint + dy) and the bounds symmetrically around it, the
\* span as long as before; a booking whose bounds are equal keeps them.
C29_SpaceMove ==
    mode = "edit" =>
        \A in \in SpaceMoves :
            IF RowBefore(in).f # RowBefore(in).e THEN MovedAroundMidpoint(in)
            ELSE /\ RowAfter(in).f = RowBefore(in).f
                 /\ RowAfter(in).e = RowBefore(in).e

\* A spatial move has just shifted a booking whose range was given in
\* reverse: the log has its bounds before and after.
C29_Witness ==
    /\ mode = "edit"
    /\ ops # <<>> /\ ops[Len(ops)] = "move"
    /\ edit_logs # <<>>
    /\ LET entry == edit_logs[Len(edit_logs)]
       IN  /\ entry.f_before # NaN /\ entry.e_before # NaN
           /\ entry.f_before > entry.e_before
           /\ entry.f_after # entry.f_before
           /\ entry.f_after < entry.e_after

\* ---------------------------------------------------------------------- C30
\* A row with its start, end and position bounds left out.
OtherFields(row) == [row_id |-> row.row_id, vessel |-> row.vessel, berth |-> row.berth]

\* C30: _apply_move changes nothing but start, end, f and e of the booking
\* whose row_id was given: every other booking and every other field is as
\* before, the working set passed in is not modified (it is what the undo
\* buffer holds after a move that changed a field), and with a row_id that
\* matches no booking the result equals the input, edit_logs gets no entry
\* and undo_df stays as it was.
C30_FrameEffect ==
    mode = "edit" =>
        \A in \in MoveInputs :
            LET s1  == MoveOf(Session, in)
                idx == RowIndex(edit_df, in[1])
            IN  /\ Len(s1.df) = Len(edit_df)
                /\ \A i \in 1..Len(edit_df) :
                       /\ OtherFields(s1.df[i]) = OtherFields(edit_df[i])
                       /\ i # idx => s1.df[i] = edit_df[i]
                /\ s1.df # edit_df => s1.undo = <<edit_df>>
                /\ idx = 0 => s1 = Session

\* A move was aimed at a row_id no booking has, after a move that changed
\* one: the working set, the buffer and the log are those of before.
C30_Witness ==
    /\ mode = "edit"
    /\ ops = <<"move", "noop">>
    /\ noop_base # <<>>
    /\ Session = noop_base[1]
    /\ undo_df # NoFrame
    /\ \E i \in 1..Len(edit_df) :
           /\ undo_df[1][i] # edit_df[i]
           /\ \A j \in 1..Len(edit_df) : j # i => undo_df[1][j] = edit_df[j]
    /\ \E in \in MoveInputs :
           /\ RowIndex(edit_df, in[1]) = 0
           /\ MoveOf(Session, in) = Session

====
